---- MODULE Spec2Model ----
(***************************************************************************)
(* A model of the Flask AST analyzer of AutoDeployr:                       *)
(*   - FlaskApplicationParser (flask_parser.py): dependency closure,        *)
(*     descriptor assembly, serialization, import slicing;                  *)
(*   - http_method_fixer.py: the method-list normalizer.                    *)
(*   - analyzer.py: the command-line entry points.                         *)
(* The specifications share the variables:                                 *)
(*   Spec        extract_functions / _resolve_all_dependencies /            *)
(*               _function_to_dict over a catalog and a call graph;         *)
(*   SpecImports _get_imports_used_by_function over one file's imports;     *)
(*   SpecFix     fix_http_methods / fix_directory over files on disk;       *)
(*   SpecText    the two substitutions of the normalizer over texts;        *)
(*   SpecScan    parse() over source trees, from file discovery on;         *)
(*   SpecCollide SpecScan over trees that define one name in two files;     *)
(*   SpecCli     analyze_app / analyze_file around parse();                 *)
(*   SpecCrash   SpecFix with a run that can be interrupted.                *)
(***************************************************************************)
EXTENDS Integers, Sequences, FiniteSets, TLC

VARIABLES
    \* ---- FlaskApplicationParser state (flask_parser.py:20-39)
    all_functions,        \* function_name -> [source, file_path]
    all_function_calls,   \* function_name -> set of call targets
    routes,               \* list of route records
    imports_by_file,      \* file_path -> list of ImportDefinition
    source_info,          \* function_name -> what its source text contains
    \* ---- extract_functions / _resolve_all_dependencies control state
    pc,                   \* position in parse()
    idx,                  \* index of the route (or descriptor) being processed
    stack,                \* call stack of _resolve_all_dependencies frames
    resolved,             \* the shared `resolved` set of one top-level call
    visited,              \* the shared `visited` set of one top-level call
    function,             \* the ServerlessFunction being built for routes[idx]
    functions,            \* the list built by extract_functions
    result,               \* the "functions" list of the dict returned by parse()
    \* ---- find_python_files / find_flask_apps / analyze_files
    sources,              \* path of a .py file of the application -> its content
    python_files,         \* self.python_files, in the order the files are visited
    flask_apps,           \* self.flask_apps
    flask_blueprints,     \* self.flask_blueprints
    app_name,             \* self.app_name
    env_vars,             \* self.env_vars
    fidx,                 \* index in python_files of the file being processed
    step,                 \* position of analyze_files in that file
    visits,               \* history: <<phase, file, outcome>> of every file visit;
                          \* outcome is "ok", or the step that raised
    \* ---- http_method_fixer.py: the disk
    files,                \* path of a generated .py file -> its content
    backups,              \* path of a generated .py file -> content of path.bak
    \* ---- fix_directory / fix_http_methods control state and locals
    fpc,                  \* position in fix_directory / fix_http_methods
    walk,                 \* the .py files os.walk has not yet yielded
    file_path,            \* the argument of the running fix_http_methods call
    content,              \* its local `content`
    original_content,     \* its local `original_content`
    ret,                  \* the value the last fix_http_methods call returned
    fixed_files,          \* the list fix_directory builds
    runs,                 \* completed fix_directory runs
    \* ---- history of the normalizer, read by the properties only
    initial,              \* the disk (files, backups) before the first run
    entry,                \* files when the running fix_directory started
    backup_state,         \* "none", "ok" or "failed": this call's shutil.copy2
    wrote,                \* this call opened the primary file for writing
    failed,               \* some I/O operation has failed so far
    \* ---- the text transform applied on its own
    texts,                \* a text and the results of successive transforms
    \* ---- analyzer.py: analyze_app / analyze_file
    cli,                  \* position in analyze_app / analyze_file
    output_file,          \* an output file was given
    fix_methods,          \* the fix_methods argument
    status,               \* the returned status, NoStatus before the return
    stdout,               \* the JSON documents printed so far
    out_file,             \* the content of the output file
    raised                \* history: an exception has reached the top-level try

analyzerVars == <<all_functions, all_function_calls, routes, imports_by_file,
                  source_info, pc, idx, stack,
                  resolved, visited, function, functions, result>>

\* What analyze_files leaves behind and extract_functions only reads.
inputVars == <<all_functions, all_function_calls, routes, imports_by_file,
               source_info>>

fixVars == <<files, backups, fpc, walk, file_path, content, original_content, ret,
             fixed_files, runs, initial, entry, backup_state, wrote, failed>>

textVars == <<texts>>

scanVars == <<sources, python_files, flask_apps, flask_blueprints, app_name, env_vars,
              fidx, step, visits>>

cliVars == <<cli, output_file, fix_methods, status, stdout, out_file, raised>>

vars == <<analyzerVars, scanVars, fixVars, textVars, cliVars>>

(***************************************************************************)
(* Bounds and the universe of names.                                       *)
(***************************************************************************)
\* Largest number of call edges (caller, target) in the call graph.
MaxEdges == 3

\* Largest number of import bindings a file declares.
MaxImports == 3

\* Largest number of characters of a text given to the transform.
MaxLen == 5

\* Largest number of fix_directory runs over the same directory.
MaxRuns == 2

\* Names of function definitions a source tree may hold.  "len" is a
\* user-defined function that shares its name with a built-in.
FuncNames == {"r", "f", "g", "len"}

\* Call targets as FunctionCallVisitor records them: a bare name, or
\* "receiver.attribute".  "ext" is a bare name no file defines.
Targets == FuncNames \cup {"ext", "o.f"}

\* The exclusion list of _resolve_all_dependencies.
Builtins == {"print", "len", "str", "int", "float", "list", "dict", "set", "bool",
             "type", "open", "sum", "min", "max", "sorted", "enumerate", "zip",
             "filter", "map"}

\* Verbatim source text of the definition of function n (one text per name).
SourceOf(n) == "def " \o n

EmptyMap == [x \in {} |-> ""]

RECURSIVE SubsetsUpTo(_, _)
\* The subsets of S with at most n elements.
SubsetsUpTo(S, n) ==
    IF n = 0 THEN {{}}
    ELSE LET prev == SubsetsUpTo(S, n - 1)
         IN  prev \cup {p \cup {x} : p \in prev, x \in S}

RECURSIVE Orderings(_)
\* All sequences that list the elements of the finite set S once each:
\* the possible results of list(S) for a Python set.
Orderings(S) ==
    IF S = {} THEN {<<>>}
    ELSE UNION {{<<x>> \o t : t \in Orderings(S \ {x})} : x \in S}

Range(s) == {s[i] : i \in 1..Len(s)}

(***************************************************************************)
(* The state after analyze_files: the catalog, the call graph, the routes. *)
(***************************************************************************)
\* A catalog entry as FunctionDefinitionVisitor and analyze_files build it.
FuncInfo(n) == [source |-> SourceOf(n), file_path |-> "app.py"]

\* The call graphs with at most MaxEdges edges whose callers are in K.  The
\* body of the user-defined "len" makes no calls.
CallGraphs(K) ==
    {[k \in K |-> {t \in Targets : <<k, t>> \in E}] :
        E \in SubsetsUpTo((K \ {"len"}) \X Targets, MaxEdges)}

\* FunctionCallVisitor records an entry for every FunctionDef of a file that
\* FunctionDefinitionVisitor catalogued; a file whose analysis stops between
\* the two leaves its one function without a call-graph entry.
CallGraphKeys(cat) == {cat} \cup {cat \ {x} : x \in cat}

\* Route records (the fields the closure and the assembly read).
RouteRecord(n) ==
    [name |-> n, path |-> "/" \o n, methods |-> <<"GET">>, file_path |-> "app.py",
     app_name |-> "app"]

RouteLists(cat) ==
    {<<RouteRecord("r")>>} \cup
    (IF "f" \in cat THEN {<<RouteRecord("r"), RouteRecord("f")>>} ELSE {})

\* ServerlessFunction(name=..., requires_db=...) of lines 164-173, with the
\* defaults of models.py for the fields not passed.
NewFunction(route, requires_db) ==
    [name |-> route.name, path |-> route.path, methods |-> route.methods,
     app_name |-> route.app_name, file_path |-> route.file_path,
     requires_db |-> requires_db, dependencies |-> {},
     dependency_sources |-> EmptyMap, imports |-> <<>>, env_vars |-> {}]

\* The status of a call that has not returned, and an output file that
\* does not exist.
NoStatus == "none"
NoFile == [kind |-> "absent", app_name |-> "", functions |-> <<>>,
           normalized |-> FALSE]

\* The parser is not driven by analyze_app / analyze_file.
CliIdle ==
    /\ cli = "off"
    /\ output_file = FALSE
    /\ fix_methods = FALSE
    /\ status = NoStatus
    /\ stdout = <<>>
    /\ out_file = NoFile
    /\ raised = FALSE

\* No application is being scanned: the state of the parser's discovery
\* fields after __init__ (lines 20-29).
ScanIdle ==
    /\ CliIdle
    /\ sources = [p \in {} |-> <<>>]
    /\ python_files = <<>>
    /\ flask_apps = {}
    /\ flask_blueprints = {}
    /\ app_name = "app"
    /\ env_vars = {}
    /\ fidx = 1
    /\ step = "imports"
    /\ visits = {}

(***************************************************************************)
(* Imports.  An ImportDefinition is the pair (module, alias) of models.py. *)
(***************************************************************************)
ImportDefinition(module, alias) == [module |-> module, alias |-> alias]

\* The bindings a file may declare:
\*   from flask import request;  import os;  import psycopg2;
\*   from main import app
ImportDefs ==
    {ImportDefinition("flask.request", "request"),
     ImportDefinition("os", "os"),
     ImportDefinition("psycopg2", "psycopg2"),
     ImportDefinition("main.app", "app")}

\* ImportCollector appends one ImportDefinition per imported name of every
\* import statement it visits, at module scope or inside a function; a
\* statement that occurs twice is appended twice.
RECURSIVE SeqsUpTo(_, _)
SeqsUpTo(S, n) ==
    IF n = 0 THEN {<<>>}
    ELSE LET prev == SeqsUpTo(S, n - 1)
         IN  prev \cup {Append(p, x) : p \in {q \in prev : Len(q) = n - 1}, x \in S}

ImportLists == SeqsUpTo(ImportDefs, MaxImports)

\* What a function's source text contains, as far as the slicer looks:
\*   parses         ast.parse accepts the text
\*   names          the identifiers loaded as a Name or as the root of an
\*                  Attribute
\*   words          the identifiers that occur as whole words in the text
\*   dotted         the module names of _detect_common_imports_in_source
\*                  whose pattern matches the text
\*   uses_database  DatabaseDetector's verdict on the text
SourceInfo(parses, names, words, dotted, uses_database) ==
    [parses |-> parses, names |-> names, words |-> words, dotted |-> dotted,
     uses_database |-> uses_database]

\* A handler that uses request and its app decorator, and nothing else.
PlainInfo == SourceInfo(TRUE, {"app", "request"}, {"app", "request"}, {}, FALSE)

\* A function whose source loads no name at all.
NoCallInfo == SourceInfo(TRUE, {}, {}, {}, FALSE)

\* module_name.startswith(prefix) and `keyword in module_name`, on the
\* lower-cased module paths of ImportDefs.
StartsWith(module, prefix) == <<module, prefix>> \in {<<"flask.request", "flask">>}
Contains(module, keyword) ==
    <<module, keyword>> \in {<<"psycopg2", "psycopg2">>, <<"sqlite3", "sqlite3">>}

InitAnalyzer ==
    /\ \E cat \in {c \in SUBSET FuncNames : "r" \in c} :
         /\ all_functions = [n \in cat |-> FuncInfo(n)]
         /\ \E K \in CallGraphKeys(cat) : all_function_calls \in CallGraphs(K)
         /\ routes \in RouteLists(cat)
         /\ source_info = [n \in cat |-> PlainInfo]
    /\ imports_by_file =
         [p \in {"app.py"} |-> <<ImportDefinition("flask.request", "request"),
                                 ImportDefinition("main.app", "app")>>]
    /\ pc = "extract"
    /\ idx = 1
    /\ stack = <<>>
    /\ resolved = {}
    /\ visited = {}
    /\ function = NewFunction(RouteRecord("r"), FALSE)
    /\ functions = <<>>
    /\ result = <<>>
    /\ ScanIdle

(***************************************************************************)
(* _resolve_all_dependencies (flask_parser.py:329-353), one loop           *)
(* iteration or one call/return per step.  A frame is one activation:      *)
(* its function_name and the direct_deps the for loop has not reached.     *)
(* Python iterates a set in no specified order: dep is any element.        *)
(***************************************************************************)
\* self.all_function_calls.get(function_name, set())
DirectDeps(function_name) ==
    IF function_name \in DOMAIN all_function_calls
    THEN all_function_calls[function_name] ELSE {}

\* Mutant of IsBuiltin: the exclusion list is not consulted.
IsBuiltin_NoExclusion(dep) == FALSE

\* dep in {'print', 'len', ...}
IsBuiltin(dep) == dep \in Builtins

\* dep in self.all_functions
InCatalog(dep) == dep \in DOMAIN all_functions

\* The visited set after _resolve_all_dependencies(dep, resolved, visited)
\* is entered: an already visited name returns at once.
VisitedOnCall(dep, vis) == vis \cup {dep}

\* Mutant of StackOnCall: the resolver does not recurse into dep.
StackOnCall_NoRecursion(dep, stk, vis) == stk

\* The stack after that call is entered.
StackOnCall(dep, stk, vis) ==
    IF dep \in vis THEN stk
    ELSE Append(stk, [function_name |-> dep, todo |-> DirectDeps(dep)])

Top == stack[Len(stack)]

SetTodo(stk, todo) == [stk EXCEPT ![Len(stk)].todo = todo]

\* if dep in resolved: continue
ResolveSkipResolved ==
    /\ pc = "resolve" /\ stack # <<>>
    /\ \E dep \in Top.todo :
         /\ dep \in resolved
         /\ stack' = SetTodo(stack, Top.todo \ {dep})
    /\ UNCHANGED <<scanVars, fixVars, textVars, cliVars, inputVars, pc, idx, resolved,
                   visited, function, functions, result>>

\* if dep in {built-ins}: continue
ResolveSkipBuiltin ==
    /\ pc = "resolve" /\ stack # <<>>
    /\ \E dep \in Top.todo :
         /\ dep \notin resolved
         /\ IsBuiltin(dep)
         /\ stack' = SetTodo(stack, Top.todo \ {dep})
    /\ UNCHANGED <<scanVars, fixVars, textVars, cliVars, inputVars, pc, idx, resolved,
                   visited, function, functions, result>>

\* dep is not in self.all_functions: the loop body does nothing
ResolveDrop ==
    /\ pc = "resolve" /\ stack # <<>>
    /\ \E dep \in Top.todo :
         /\ dep \notin resolved
         /\ ~IsBuiltin(dep)
         /\ ~InCatalog(dep)
         /\ stack' = SetTodo(stack, Top.todo \ {dep})
    /\ UNCHANGED <<scanVars, fixVars, textVars, cliVars, inputVars, pc, idx, resolved,
                   visited, function, functions, result>>

\* resolved.add(dep); self._resolve_all_dependencies(dep, resolved, visited)
ResolveAdd ==
    /\ pc = "resolve" /\ stack # <<>>
    /\ \E dep \in Top.todo :
         /\ dep \notin resolved
         /\ ~IsBuiltin(dep)
         /\ InCatalog(dep)
         /\ resolved' = resolved \cup {dep}
         /\ visited' = VisitedOnCall(dep, visited)
         /\ stack' = StackOnCall(dep, SetTodo(stack, Top.todo \ {dep}), visited)
    /\ UNCHANGED <<scanVars, fixVars, textVars, cliVars, inputVars, pc, idx,
                   function, functions, result>>

\* the for loop is exhausted: return resolved
ResolveReturn ==
    /\ pc = "resolve" /\ stack # <<>>
    /\ Top.todo = {}
    /\ stack' = SubSeq(stack, 1, Len(stack) - 1)
    /\ UNCHANGED <<scanVars, fixVars, textVars, cliVars, inputVars, pc, idx, resolved,
                   visited, function, functions, result>>

(***************************************************************************)
(* _resolve_all_dependencies as the import slicer calls it: the same       *)
(* recursion, run to its end.  ResolveFrom returns the pair of the shared   *)
(* sets after the call _resolve_all_dependencies(fn, resolved, visited).    *)
(***************************************************************************)
RECURSIVE ResolveFrom(_, _, _), ResolveLoop(_, _, _)
ResolveLoop(todo, res, vis) ==
    IF todo = {} THEN <<res, vis>>
    ELSE LET dep == CHOOSE d \in todo : TRUE
             rest == todo \ {dep}
         IN  IF dep \in res \/ IsBuiltin(dep) \/ ~InCatalog(dep)
             THEN ResolveLoop(rest, res, vis)
             ELSE LET after == ResolveFrom(dep, res \cup {dep}, vis)
                  IN  ResolveLoop(rest, after[1], after[2])
ResolveFrom(fn, res, vis) ==
    IF fn \in vis THEN <<res, vis>>
    ELSE ResolveLoop(DirectDeps(fn), res, vis \cup {fn})

ResolveAllDependencies(function_name) == ResolveFrom(function_name, {}, {})[1]

(***************************************************************************)
(* The import slicer (flask_parser.py:195-327).                            *)
(***************************************************************************)
RECURSIVE AppendNew(_, _)
\* for imp in cands: if imp not in used: used.append(imp)
AppendNew(used, cands) ==
    IF cands = <<>> THEN used
    ELSE AppendNew(IF Head(cands) \in Range(used) THEN used
                   ELSE Append(used, Head(cands)),
                   Tail(cands))

\* ImportUsageAnalyzer.get_used_imports: the imports, in declaration order,
\* whose alias the visited source loads.
GetUsedImports(all_imports, info) ==
    LET Used(imp) == imp.alias \in info.names
    IN  SelectSeq(all_imports, Used)

essential_module_prefixes == <<"flask", "werkzeug", "jinja2">>
common_patterns == <<"request", "jsonify", "render_template", "redirect", "url_for",
                     "session">>
db_modules == <<"db", "database", "models", "sqlalchemy", "psycopg2", "pymongo",
                "redis">>
import_patterns == <<"hashlib", "os", "sys", "json", "datetime", "time", "random",
                     "re", "base64", "urllib", "requests">>

\* _is_pattern_used_in_function: each special regex implies the final
\* whole-word search, so the result is the whole-word search.
IsPatternUsedInFunction(pattern, info) == pattern \in info.words

\* _check_for_database_usage: a source that does not parse is not flagged.
CheckForDatabaseUsage(info) == info.parses /\ info.uses_database

\* _detect_common_imports_in_source (lines 271-300).
RECURSIVE DetectLoop(_, _, _, _)
DetectLoop(i, detected, info, all_imports) ==
    IF i > Len(import_patterns) THEN detected
    ELSE LET import_name == import_patterns[i]
             Match(imp) == \/ imp.module = import_name
                           \/ StartsWith(imp.module, import_name \o ".")
                           \/ imp.alias = import_name
         IN  DetectLoop(i + 1,
                        IF import_name \in info.dotted
                        THEN AppendNew(detected, SelectSeq(all_imports, Match))
                        ELSE detected,
                        info, all_imports)
DetectCommonImportsInSource(info, all_imports) ==
    DetectLoop(1, <<>>, info, all_imports)

\* _get_imports_for_dependency_functions (lines 239-269); deps lists the
\* resolved dependencies in the order the set yields them.
RECURSIVE DependencyImportsLoop(_, _, _)
DependencyImportsLoop(deps, dependency_imports, all_imports) ==
    IF deps = <<>> THEN dependency_imports
    ELSE LET dep_name == Head(deps)
             next ==
                 IF dep_name \in DOMAIN all_functions
                    /\ all_functions[dep_name].source # ""
                 THEN IF source_info[dep_name].parses
                      THEN AppendNew(dependency_imports,
                                     GetUsedImports(all_imports, source_info[dep_name]))
                      ELSE dependency_imports \o
                           DetectCommonImportsInSource(source_info[dep_name], all_imports)
                 ELSE dependency_imports
         IN  DependencyImportsLoop(Tail(deps), next, all_imports)
GetImportsForDependencyFunctions(deps, all_imports) ==
    DependencyImportsLoop(deps, <<>>, all_imports)

\* The five rules of _get_imports_used_by_function, in the code's order
\* (lines 204-231), for a route source that parses.
RECURSIVE PatternLoop(_, _, _, _)
PatternLoop(i, used, info, all_imports) ==
    IF i > Len(common_patterns) THEN used
    ELSE LET IsPattern(imp) == imp.alias = common_patterns[i]
         IN  PatternLoop(i + 1,
                         IF IsPatternUsedInFunction(common_patterns[i], info)
                         THEN AppendNew(used, SelectSeq(all_imports, IsPattern))
                         ELSE used,
                         info, all_imports)

SlicedImports(route, deps, all_imports) ==
    LET info == source_info[route.name]
        Essential(imp) == \E i \in 1..Len(essential_module_prefixes) :
                             StartsWith(imp.module, essential_module_prefixes[i])
        IsApp(imp) == route.app_name = imp.alias
        IsDb(imp) == \E i \in 1..Len(db_modules) : Contains(imp.module, db_modules[i])
        used1 == GetUsedImports(all_imports, info)
        used2 == AppendNew(used1, SelectSeq(all_imports, Essential))
        used3 == AppendNew(used2, SelectSeq(all_imports, IsApp))
        used4 == PatternLoop(1, used3, info, all_imports)
        used5 == IF CheckForDatabaseUsage(info)
                 THEN AppendNew(used4, SelectSeq(all_imports, IsDb))
                 ELSE used4
    IN  AppendNew(used5, GetImportsForDependencyFunctions(deps, all_imports))

\* _get_imports_used_by_function (lines 195-237): when ast.parse rejects the
\* route's source the except branch returns the file's whole import list.
GetImportsUsedByFunction(route, deps) ==
    LET all_imports == IF route.file_path \in DOMAIN imports_by_file
                       THEN imports_by_file[route.file_path] ELSE <<>>
    IN  IF source_info[route.name].parses
        THEN SlicedImports(route, deps, all_imports)
        ELSE all_imports

(***************************************************************************)
(* extract_functions (flask_parser.py:158-193).                            *)
(***************************************************************************)
\* Lines 181-187: the sources of the dependencies found in the catalog.
ExtractDependencySources(deps) ==
    [dep_name \in {d \in deps : d \in DOMAIN all_functions
                                  /\ "source" \in DOMAIN all_functions[d]}
        |-> all_functions[dep_name].source]

\* Lines 162-179: a route's ServerlessFunction is created and its imports
\* are sliced (deps: the order in which the slicer meets the route's
\* dependencies); a route with a call-graph entry starts the top-level
\* _resolve_all_dependencies call (resolved = set(), visited = set(), then
\* visited.add(function_name)); one without gets its env_vars (line 189)
\* and is appended.
ExtractRoute ==
    /\ pc = "extract" /\ idx <= Len(routes)
    /\ \E deps \in Orderings(ResolveAllDependencies(routes[idx].name)) :
         LET created == NewFunction(routes[idx],
                            CheckForDatabaseUsage(source_info[routes[idx].name]))
             sliced ==
               IF routes[idx].file_path \in DOMAIN imports_by_file
               THEN [created EXCEPT
                       !.imports = GetImportsUsedByFunction(routes[idx], deps)]
               ELSE created
         IN  function' =
               IF routes[idx].name \in DOMAIN all_function_calls
               THEN sliced
               ELSE [sliced EXCEPT !.env_vars = env_vars]
    /\ IF routes[idx].name \in DOMAIN all_function_calls
       THEN /\ resolved' = {}
            /\ visited' = {routes[idx].name}
            /\ stack' = <<[function_name |-> routes[idx].name,
                           todo |-> DirectDeps(routes[idx].name)]>>
            /\ pc' = "resolve"
            /\ UNCHANGED <<idx, functions>>
       ELSE /\ functions' = Append(functions, function')
            /\ idx' = idx + 1
            /\ UNCHANGED <<resolved, visited, stack, pc>>
    /\ UNCHANGED <<scanVars, fixVars, textVars, cliVars, inputVars, result>>

\* Lines 179-191: the top-level call has returned; dependencies,
\* dependency_sources and env_vars are set and the function is appended.
AssembleRoute ==
    /\ pc = "resolve" /\ stack = <<>>
    /\ function' = [function EXCEPT
                      !.dependencies = resolved,
                      !.dependency_sources = ExtractDependencySources(resolved),
                      !.env_vars = env_vars]
    /\ functions' = Append(functions, function')
    /\ idx' = idx + 1
    /\ pc' = "extract"
    /\ UNCHANGED <<scanVars, fixVars, textVars, cliVars, inputVars, stack, resolved,
                   visited, result>>

\* Line 193: return functions; parse() goes on to serialize them.
ReturnFunctions ==
    /\ pc = "extract" /\ idx > Len(routes)
    /\ pc' = "to_dict"
    /\ idx' = 1
    /\ UNCHANGED <<scanVars, fixVars, textVars, cliVars, inputVars, stack, resolved,
                   visited, function, functions, result>>

(***************************************************************************)
(* _function_to_dict (flask_parser.py:355-382) and the end of parse().     *)
(***************************************************************************)
\* Mutant of DictDependencySources: every catalog function's source is
\* emitted, whether or not it is a dependency.
DictDependencySources_WholeCatalog(deps) ==
    [dep_name \in DOMAIN all_functions |-> all_functions[dep_name].source]

\* Lines 359-366: dependency_sources is rebuilt from the catalog.
DictDependencySources(deps) ==
    [dep_name \in {d \in deps : d \in DOMAIN all_functions
                                  /\ "source" \in DOMAIN all_functions[d]}
        |-> all_functions[dep_name].source]

\* Lines 357-358: if not function.methods: function.methods = ["GET"]
DictMethods(methods) == IF methods = <<>> THEN <<"GET">> ELSE methods

\* Lines 355-382.  list(function.dependencies) and list(function.env_vars)
\* hold the sets' elements in some order; the methods default is stored in
\* the ServerlessFunction itself.
FunctionToDict ==
    /\ pc = "to_dict" /\ idx <= Len(functions)
    /\ functions' = [functions EXCEPT ![idx].methods = DictMethods(@)]
    /\ \E deps \in Orderings(functions[idx].dependencies),
          evs \in Orderings(functions[idx].env_vars) :
         result' = Append(result,
             [name |-> functions[idx].name,
              path |-> functions[idx].path,
              methods |-> functions'[idx].methods,
              app_name |-> functions[idx].app_name,
              dependencies |-> deps,
              dependency_sources |->
                  DictDependencySources(functions[idx].dependencies),
              imports |-> [i \in 1..Len(functions[idx].imports) |->
                             [module |-> functions[idx].imports[i].module,
                              alias |-> functions[idx].imports[i].alias]],
              env_vars |-> evs,
              file_path |-> functions[idx].file_path,
              requires_db |-> functions[idx].requires_db])
    /\ idx' = idx + 1
    /\ UNCHANGED <<scanVars, fixVars, textVars, cliVars, inputVars, pc, stack, resolved,
                   visited, function>>

\* parse() returns its result.
ParseReturn ==
    /\ pc = "to_dict" /\ idx > Len(functions)
    /\ pc' = "done"
    /\ UNCHANGED <<scanVars, fixVars, textVars, cliVars, inputVars, idx, stack, resolved,
                   visited, function, functions, result>>

(***************************************************************************)
(* http_method_fixer.py.  A text is a sequence of characters over          *)
(*   "M"  the nine characters  methods=[                                   *)
(*   "G", "P"  two upper-case letters ([A-Z])                              *)
(*   ","  a comma followed by a space                                      *)
(*   "]"  "'"  the closing bracket and the single quote                    *)
(*   "x"  any other character                                              *)
(* No regular expression of fix_http_methods tells two texts with the      *)
(* same sequence apart.                                                    *)
(***************************************************************************)
Chars == {"M", "G", "P", ",", "]", "'", "x"}
Upper == {"G", "P"}

RECURSIVE UpperRun(_, _)
\* The length of the longest run of [A-Z] that starts at position i of s.
UpperRun(s, i) ==
    IF i <= Len(s) /\ s[i] \in Upper THEN 1 + UpperRun(s, i + 1) ELSE 0

\* Mutant of Replacement2: the pair is rewritten to its first method, left
\* unquoted.
Replacement2_FirstBare(w1, w2) == <<"M">> \o w1 \o <<"]">>

\* r"methods=['\1']"
Replacement1(w1) == <<"M", "'">> \o w1 \o <<"'", "]">>

\* r"methods=['\1', '\2']"
Replacement2(w1, w2) == <<"M", "'">> \o w1 \o <<"'", ",", "'">> \o w2 \o <<"'", "]">>

RECURSIVE Sub1(_, _), Sub2(_, _)
\* re.sub(r'methods=\[([A-Z]+)\]', replacement, s) from position i on:
\* leftmost matches, not overlapping, each replaced.
Sub1(s, i) ==
    IF i > Len(s) THEN <<>>
    ELSE LET n == UpperRun(s, i + 1)
         IN  IF /\ s[i] = "M" /\ n >= 1
                /\ i + n + 1 <= Len(s) /\ s[i + n + 1] = "]"
             THEN Replacement1(SubSeq(s, i + 1, i + n)) \o Sub1(s, i + n + 2)
             ELSE <<s[i]>> \o Sub1(s, i + 1)

\* re.sub(r'methods=\[([A-Z]+), ([A-Z]+)\]', replacement, s) from i on.
Sub2(s, i) ==
    IF i > Len(s) THEN <<>>
    ELSE LET n1 == UpperRun(s, i + 1)
             n2 == UpperRun(s, i + n1 + 2)
         IN  IF /\ s[i] = "M" /\ n1 >= 1
                /\ i + n1 + 1 <= Len(s) /\ s[i + n1 + 1] = ","
                /\ n2 >= 1
                /\ i + n1 + n2 + 2 <= Len(s) /\ s[i + n1 + n2 + 2] = "]"
             THEN Replacement2(SubSeq(s, i + 1, i + n1),
                               SubSeq(s, i + n1 + 2, i + n1 + n2 + 1))
                  \o Sub2(s, i + n1 + n2 + 3)
             ELSE <<s[i]>> \o Sub2(s, i + 1)

\* Lines 30-36: the two substitutions, in the code's order.
FixText(s) == Sub2(Sub1(s, 1), 1)

\* Mutant of ContentChanged: the file is rewritten whatever the comparison.
ContentChanged_Always(new, old) == TRUE

\* Line 38: content != original_content
ContentChanged(new, old) == new # old

\* Contents of generated files:  x   methods=[G]   methods=[G, P]
\*   methods=['G']   methods=[G, P, G]
PlainText  == <<"x">>
SingleText == <<"M", "G", "]">>
PairText   == <<"M", "G", ",", "P", "]">>
QuotedText == <<"M", "'", "G", "'", "]">>
TripleText == <<"M", "G", ",", "P", ",", "G", "]">>
FileSamples == {PlainText, SingleText, PairText, QuotedText, TripleText}

\* The .py files under the root, in the order os.walk yields them.
PyFiles == <<"a.py", "b.py">>

\* The normalizer is not running and the disk holds no generated file.
FixIdle ==
    /\ files = [p \in {} |-> <<>>]
    /\ backups = [p \in {} |-> {}]
    /\ fpc = "off"
    /\ walk = <<>>
    /\ file_path = ""
    /\ content = <<>>
    /\ original_content = <<>>
    /\ ret = FALSE
    /\ fixed_files = <<>>
    /\ runs = 0
    /\ initial = [files |-> files, backups |-> backups]
    /\ entry = files
    /\ backup_state = "none"
    /\ wrote = FALSE
    /\ failed = FALSE

TextIdle == texts = <<>>

\* The analyzer is not running.
AnalyzerIdle ==
    /\ all_functions = [n \in {} |-> FuncInfo(n)]
    /\ all_function_calls = [n \in {} |-> {}]
    /\ routes = <<>>
    /\ imports_by_file = [p \in {} |-> <<>>]
    /\ source_info = [n \in {} |-> NoCallInfo]
    /\ pc = "off"
    /\ idx = 1
    /\ stack = <<>>
    /\ resolved = {}
    /\ visited = {}
    /\ function = NewFunction(RouteRecord("r"), FALSE)
    /\ functions = <<>>
    /\ result = <<>>
    /\ ScanIdle

\* Two generated files with sample contents; a.py may have a .bak file
\* left by an earlier generation.
InitFix ==
    /\ files \in [Range(PyFiles) -> FileSamples]
    /\ \E old \in {{}, {PlainText}} :
         backups = [p \in Range(PyFiles) |-> IF p = "a.py" THEN old ELSE {}]
    /\ fpc = "idle"
    /\ walk = <<>>
    /\ file_path = ""
    /\ content = <<>>
    /\ original_content = <<>>
    /\ ret = FALSE
    /\ fixed_files = <<>>
    /\ runs = 0
    /\ initial = [files |-> files, backups |-> backups]
    /\ entry = files
    /\ backup_state = "none"
    /\ wrote = FALSE
    /\ failed = FALSE
    /\ AnalyzerIdle
    /\ TextIdle

\* fix_directory is called (lines 51-58).
StartDirectory ==
    /\ fpc = "idle" /\ runs < MaxRuns
    /\ walk' = PyFiles
    /\ fixed_files' = <<>>
    /\ entry' = files
    /\ fpc' = "next"
    /\ UNCHANGED <<files, backups, file_path, content, original_content, ret, runs,
                   initial, backup_state, wrote, failed>>
    /\ UNCHANGED <<analyzerVars, scanVars, textVars, cliVars>>

\* Lines 59-63: the next .py file is handed to fix_http_methods.
CallFix ==
    /\ fpc = "next" /\ walk # <<>>
    /\ file_path' = Head(walk)
    /\ walk' = Tail(walk)
    /\ backup_state' = "none"
    /\ wrote' = FALSE
    /\ fpc' = "read"
    /\ UNCHANGED <<files, backups, content, original_content, ret, fixed_files, runs,
                   initial, entry, failed>>
    /\ UNCHANGED <<analyzerVars, scanVars, textVars, cliVars>>

\* Lines 14-16: the file is read.
ReadOk ==
    /\ fpc = "read"
    /\ content' = files[file_path]
    /\ fpc' = "backup"
    /\ UNCHANGED <<files, backups, walk, file_path, original_content, ret, fixed_files,
                   runs, initial, entry, backup_state, wrote, failed>>
    /\ UNCHANGED <<analyzerVars, scanVars, textVars, cliVars>>

\* Lines 17-19: the read raises; return False.
ReadFail ==
    /\ fpc = "read"
    /\ ret' = FALSE
    /\ failed' = TRUE
    /\ fpc' = "returned"
    /\ UNCHANGED <<files, backups, walk, file_path, content, original_content,
                   fixed_files, runs, initial, entry, backup_state, wrote>>
    /\ UNCHANGED <<analyzerVars, scanVars, textVars, cliVars>>

\* Lines 21-24: shutil.copy2(file_path, backup_path) copies the file on disk.
BackupOk ==
    /\ fpc = "backup"
    /\ backups' = [backups EXCEPT ![file_path] = {files[file_path]}]
    /\ backup_state' = "ok"
    /\ fpc' = "rewrite"
    /\ UNCHANGED <<files, walk, file_path, content, original_content, ret, fixed_files,
                   runs, initial, entry, wrote, failed>>
    /\ UNCHANGED <<analyzerVars, scanVars, textVars, cliVars>>

\* Lines 25-26: the copy raises; the error is printed and the call goes on.
BackupFail ==
    /\ fpc = "backup"
    /\ backup_state' = "failed"
    /\ failed' = TRUE
    /\ fpc' = "rewrite"
    /\ UNCHANGED <<files, backups, walk, file_path, content, original_content, ret,
                   fixed_files, runs, initial, entry, wrote>>
    /\ UNCHANGED <<analyzerVars, scanVars, textVars, cliVars>>

\* Lines 28-38 and 47-49: the substitutions leave the content as it was;
\* return True.
RewriteUnchanged ==
    /\ fpc = "rewrite"
    /\ ~ContentChanged(FixText(content), content)
    /\ original_content' = content
    /\ content' = FixText(content)
    /\ ret' = TRUE
    /\ fpc' = "returned"
    /\ UNCHANGED <<files, backups, walk, file_path, fixed_files, runs, initial, entry,
                   backup_state, wrote, failed>>
    /\ UNCHANGED <<analyzerVars, scanVars, textVars, cliVars>>

\* Lines 28-38: the substitutions changed the content.
RewriteChanged ==
    /\ fpc = "rewrite"
    /\ ContentChanged(FixText(content), content)
    /\ original_content' = content
    /\ content' = FixText(content)
    /\ fpc' = "write"
    /\ UNCHANGED <<files, backups, walk, file_path, ret, fixed_files, runs, initial,
                   entry, backup_state, wrote, failed>>
    /\ UNCHANGED <<analyzerVars, scanVars, textVars, cliVars>>

\* Lines 39-43: the file is overwritten; return True.
WriteOk ==
    /\ fpc = "write"
    /\ files' = [files EXCEPT ![file_path] = content]
    /\ wrote' = TRUE
    /\ ret' = TRUE
    /\ fpc' = "returned"
    /\ UNCHANGED <<backups, walk, file_path, content, original_content, fixed_files,
                   runs, initial, entry, backup_state, failed>>
    /\ UNCHANGED <<analyzerVars, scanVars, textVars, cliVars>>

\* Lines 44-46: open(file_path, 'w') raises and the file is as it was, or
\* f.write raises after open truncated the file; return False.
WriteFail ==
    /\ fpc = "write"
    /\ \E opened \in BOOLEAN :
         /\ files' = IF opened THEN [files EXCEPT ![file_path] = <<>>] ELSE files
         /\ wrote' = opened
    /\ ret' = FALSE
    /\ failed' = TRUE
    /\ fpc' = "returned"
    /\ UNCHANGED <<backups, walk, file_path, content, original_content, fixed_files,
                   runs, initial, entry, backup_state>>
    /\ UNCHANGED <<analyzerVars, scanVars, textVars, cliVars>>

\* Mutant of ReturnToDirectory: the file is appended whatever the call
\* returned.
ReturnToDirectory_AppendAlways ==
    /\ fpc = "returned"
    /\ fixed_files' = Append(fixed_files, file_path)
    /\ fpc' = "next"
    /\ UNCHANGED <<files, backups, walk, file_path, content, original_content, ret,
                   runs, initial, entry, backup_state, wrote, failed>>
    /\ UNCHANGED <<analyzerVars, scanVars, textVars, cliVars>>

\* Lines 63-64: if fix_http_methods(file_path): fixed_files.append(file_path)
ReturnToDirectory ==
    /\ fpc = "returned"
    /\ fixed_files' = IF ret THEN Append(fixed_files, file_path) ELSE fixed_files
    /\ fpc' = "next"
    /\ UNCHANGED <<files, backups, walk, file_path, content, original_content, ret,
                   runs, initial, entry, backup_state, wrote, failed>>
    /\ UNCHANGED <<analyzerVars, scanVars, textVars, cliVars>>

\* Lines 66-67: return fixed_files.
EndDirectory ==
    /\ fpc = "next" /\ walk = <<>>
    /\ runs' = runs + 1
    /\ fpc' = "idle"
    /\ UNCHANGED <<files, backups, walk, file_path, content, original_content, ret,
                   fixed_files, initial, entry, backup_state, wrote, failed>>
    /\ UNCHANGED <<analyzerVars, scanVars, textVars, cliVars>>

NextFix ==
    \/ StartDirectory
    \/ CallFix
    \/ ReadOk
    \/ ReadFail
    \/ BackupOk
    \/ BackupFail
    \/ RewriteUnchanged
    \/ RewriteChanged
    \/ WriteOk
    \/ WriteFail
    \/ ReturnToDirectory
    \/ EndDirectory

SpecFix == InitFix /\ [][NextFix]_vars

(***************************************************************************)
(* The text transform of fix_http_methods applied to any text, and again   *)
(* to its own output.                                                      *)
(***************************************************************************)
RECURSIVE TextsUpTo(_)
TextsUpTo(n) ==
    IF n = 0 THEN {<<>>}
    ELSE LET prev == TextsUpTo(n - 1)
         IN  prev \cup {Append(t, c) : t \in {q \in prev : Len(q) = n - 1}, c \in Chars}

InitText ==
    /\ \E t \in TextsUpTo(MaxLen) : texts = <<t>>
    /\ AnalyzerIdle
    /\ FixIdle

\* content = re.sub(...); content = re.sub(...)
ApplyFix ==
    /\ Len(texts) < 3
    /\ texts' = Append(texts, FixText(texts[Len(texts)]))
    /\ UNCHANGED <<analyzerVars, scanVars, fixVars, cliVars>>

NextText == ApplyFix

SpecText == InitText /\ [][NextText]_vars

Init == InitAnalyzer /\ FixIdle /\ TextIdle

(***************************************************************************)
(* The same parse(), started from the states that exercise the import      *)
(* slicer: one file app.py with any list of import bindings, a route r,    *)
(* and either no helper or a helper f that r calls.                        *)
(***************************************************************************)
\* What the source of route r may contain.  ast.unparse keeps the decorator,
\* so a route's source always loads its app symbol.
RouteInfos ==
    {SourceInfo(FALSE, {}, {}, {}, FALSE)} \cup
    {SourceInfo(TRUE, {"app"} \cup N, {"app"} \cup N \cup W, {}, db) :
        N \in SUBSET {"os", "request"}, W \in SUBSET {"request"}, db \in BOOLEAN}

\* What the source of helper f may contain; a helper whose verbatim source
\* does not parse (an indented definition) is scanned textually.
HelperInfos ==
    {SourceInfo(TRUE, N, N, N \cap {"os"}, FALSE) :
        N \in {{}, {"os"}, {"os", "psycopg2"}}} \cup
    {SourceInfo(FALSE, {}, D, D, FALSE) : D \in {{}, {"os"}}}

InitImports ==
    /\ imports_by_file \in [{"app.py"} -> ImportLists]
    /\ routes = <<RouteRecord("r")>>
    /\ \E ri \in RouteInfos :
         \/ /\ all_functions = [n \in {"r"} |-> FuncInfo(n)]
            /\ all_function_calls = [n \in {"r"} |-> {}]
            /\ source_info = [n \in {"r"} |-> ri]
         \/ \E hi \in HelperInfos :
            /\ all_functions = [n \in {"r", "f", "len"} |-> FuncInfo(n)]
            /\ all_function_calls =
                 [n \in {"r", "f", "len"} |->
                    CASE n = "r" -> {"f", "len"}
                      [] n = "f" -> {"f", "ext"}
                      [] OTHER   -> {}]
            /\ source_info =
                 [n \in {"r", "f", "len"} |->
                    CASE n = "r" -> ri
                      [] n = "f" -> hi
                      [] OTHER   -> NoCallInfo]
    /\ pc = "extract"
    /\ idx = 1
    /\ stack = <<>>
    /\ resolved = {}
    /\ visited = {}
    /\ function = NewFunction(RouteRecord("r"), FALSE)
    /\ functions = <<>>
    /\ result = <<>>
    /\ ScanIdle
    /\ FixIdle
    /\ TextIdle

Next ==
    \/ ExtractRoute
    \/ ResolveSkipResolved
    \/ ResolveSkipBuiltin
    \/ ResolveDrop
    \/ ResolveAdd
    \/ ResolveReturn
    \/ AssembleRoute
    \/ ReturnFunctions
    \/ FunctionToDict
    \/ ParseReturn

Spec == Init /\ [][Next]_vars

SpecImports == InitImports /\ [][Next]_vars

\* The single thread of parse() runs whenever it can take a step.
FairSpec == Init /\ [][Next]_vars /\ WF_vars(Next)

(***************************************************************************)
(* The source tree that parse() reads.  A file is what the visitors of      *)
(* app_visitor.py see of its parse tree:                                    *)
(*   parses   ast.parse accepts the file                                   *)
(*   assigns  its assignments  target = callee(...)                        *)
(*   imports  its import bindings, in source order                         *)
(*   defs     its function definitions, in source order                    *)
(*   env      the environment keys read outside any function               *)
(***************************************************************************)
\* target = Flask(...) has kind "Name" and callee "Flask";
\* target = flask.Blueprint(...) has kind "Attribute" and callee "Blueprint".
Assign(target, kind, callee) == [target |-> target, kind |-> kind, callee |-> callee]

\* The methods keyword of a decorator: absent, a list display (each element
\* a string literal or some other expression), or any other expression.
NoKeyword == [given |-> FALSE, is_list |-> FALSE, elts |-> <<>>]
ListKeyword(elts) == [given |-> TRUE, is_list |-> TRUE, elts |-> elts]
OtherKeyword == [given |-> TRUE, is_list |-> FALSE, elts |-> <<>>]
Literal(value) == [literal |-> TRUE, value |-> value]
NonLiteral == [literal |-> FALSE, value |-> ""]

\* @receiver.attr(path, methods=...); path is "" when there is no
\* positional argument and ComputedPath when the first one is not a literal.
ComputedPath == "<expr>"
Decorator(receiver, attr, path, methods) ==
    [receiver |-> receiver, attr |-> attr, path |-> path, methods |-> methods]

\* A call func(...) (receiver ""), receiver.func(...) on a name, or
\* <expression>.func(...) on anything else (receiver OnExpression).
OnExpression == "()"
Call(receiver, func) == [receiver |-> receiver, func |-> func]

\* A function definition: its decorators, the calls in its body, the
\* environment keys its body reads through os.getenv / os.environ, the
\* modules its body imports, the other names it loads, and whether its
\* extracted source text parses again.
FunctionDef(name, decorators, calls, env, local_imports, loads, reparses) ==
    [name |-> name, decorators |-> decorators, calls |-> calls, env |-> env,
     local_imports |-> local_imports, loads |-> loads, reparses |-> reparses]

FileAst(parses, assigns, imports, defs, env) ==
    [parses |-> parses, assigns |-> assigns, imports |-> imports, defs |-> defs,
     env |-> env]

\* FlaskAppVisitor.visit_Assign (app_visitor.py:79-89).
FlaskAppVisitor(ast) ==
    [flask_apps |->
        {ast.assigns[i].target : i \in {j \in 1..Len(ast.assigns) :
            ast.assigns[j].kind = "Name" /\ ast.assigns[j].callee = "Flask"}},
     flask_blueprints |->
        {ast.assigns[i].target : i \in {j \in 1..Len(ast.assigns) :
            ast.assigns[j].kind = "Attribute" /\ ast.assigns[j].callee = "Blueprint"}}]

\* FunctionCallVisitor.visit_Call (app_visitor.py:275-282): the target a
\* call adds to function_calls[current_function].
CallTarget(c) == IF c.receiver = "" THEN c.func ELSE c.receiver \o "." \o c.func

\* FunctionCallVisitor (app_visitor.py:262-282) over one file.
FunctionCallVisitor(ast) ==
    [n \in {ast.defs[i].name : i \in 1..Len(ast.defs)} |->
        LET d == CHOOSE d \in Range(ast.defs) : d.name = n
        IN  {CallTarget(c) : c \in {x \in d.calls : x.receiver # OnExpression}}]

\* EnvVarDetector (app_visitor.py:284-320) over one file.
EnvVarDetector(ast) == ast.env \cup UNION {d.env : d \in Range(ast.defs)}

\* DatabaseDetector.db_modules and db_methods (app_visitor.py:353-356, 372).
detector_db_modules == <<"psycopg2", "mysql", "sqlite3", "sqlalchemy", "pymongo",
                         "redis", "elasticsearch", "cassandra", "neo4j", "db">>
db_methods == {"connect", "cursor", "execute", "query", "commit", "rollback"}

\* DatabaseDetector (app_visitor.py:349-375) over the source of one function.
DatabaseDetector(d) ==
    \/ \E m \in d.local_imports :
          \E i \in 1..Len(detector_db_modules) : Contains(m, detector_db_modules[i])
    \/ \E c \in d.calls : c.receiver # "" /\ c.func \in db_methods

\* What the slicer finds in the source text of definition d.
InfoOf(d) ==
    LET roots == {c.receiver : c \in {x \in d.calls :
                                          x.receiver \notin {"", OnExpression}}}
        bare  == {c.func : c \in {x \in d.calls : x.receiver = ""}}
        decs  == {d.decorators[i].receiver : i \in 1..Len(d.decorators)}
        names == d.loads \cup roots \cup bare \cup decs
    IN  SourceInfo(d.reparses, names, names \cup {c.func : c \in d.calls},
                   roots \cap Range(import_patterns), DatabaseDetector(d))

\* Mutant of RouteMethods: a decorator without a usable methods list gets
\* no method at all.
RouteMethods_NoDefault(kw) ==
    LET IsLiteral(e) == e.literal
        lits == SelectSeq(kw.elts, IsLiteral)
    IN  [i \in 1..Len(lits) |-> lits[i].value]

\* FlaskRouteVisitor.visit_FunctionDef, lines 185 and 193-201: the methods
\* of a route decorator.
RouteMethods(kw) ==
    LET IsLiteral(e) == e.literal
        lits == SelectSeq(kw.elts, IsLiteral)
    IN  IF kw.given /\ kw.is_list
        THEN [i \in 1..Len(lits) |-> lits[i].value]
        ELSE <<"GET">>

\* Mutant of PathLiteral: a computed first argument is taken as the path.
PathLiteral_KeepsExpression(dec) == dec.path

\* FlaskRouteVisitor.visit_FunctionDef, lines 184 and 187-191: the path a
\* decorator gives, "" standing for None.
PathLiteral(dec) == IF dec.path = ComputedPath THEN "" ELSE dec.path

\* FlaskRouteVisitor.visit_FunctionDef, lines 179-183: the decorator has the
\* route shape and its receiver is a known application or blueprint.
IsRouteDecorator(dec, apps, blueprints) ==
    dec.attr = "route" /\ (dec.receiver \in apps \/ dec.receiver \in blueprints)

\* FlaskRouteVisitor.visit_FunctionDef (app_visitor.py:178-219) for the
\* decorators decs of definition d.
RECURSIVE RoutesOfDecorators(_, _, _, _, _)
RoutesOfDecorators(decs, d, rel_path, apps, blueprints) ==
    IF decs = <<>> THEN <<>>
    ELSE LET dec == Head(decs)
             found ==
               IF IsRouteDecorator(dec, apps, blueprints) /\ PathLiteral(dec) # ""
               THEN <<[name |-> d.name, path |-> PathLiteral(dec),
                       methods |-> RouteMethods(dec.methods),
                       file_path |-> rel_path, app_name |-> dec.receiver]>>
               ELSE <<>>
         IN  found \o RoutesOfDecorators(Tail(decs), d, rel_path, apps, blueprints)

\* FlaskRouteVisitor over the definitions of one file.
RECURSIVE FlaskRouteVisitor(_, _, _, _)
FlaskRouteVisitor(defs, rel_path, apps, blueprints) ==
    IF defs = <<>> THEN <<>>
    ELSE RoutesOfDecorators(Head(defs).decorators, Head(defs), rel_path, apps,
                            blueprints)
         \o FlaskRouteVisitor(Tail(defs), rel_path, apps, blueprints)

\* The text of the definition of n in file rel_path (app_visitor.py:111-145);
\* definitions of one name in two files have different texts.
SourceIn(n, rel_path) == SourceOf(n) \o " in " \o rel_path

\* FunctionDefinitionVisitor (app_visitor.py:91-153) and lines 126-128 of
\* analyze_files: the catalog entries of one file.
FunctionDefinitionVisitor(ast, rel_path) ==
    [n \in {ast.defs[i].name : i \in 1..Len(ast.defs)} |->
        [source |-> SourceIn(n, rel_path), file_path |-> rel_path]]

\* What the source texts of the definitions of one file contain.
SourceInfos(ast) ==
    [n \in {ast.defs[i].name : i \in 1..Len(ast.defs)} |->
        InfoOf(CHOOSE d \in Range(ast.defs) : d.name = n)]

(***************************************************************************)
(* Sample applications of two files.  app.py defines the route r, which    *)
(* reads DATABASE_URL and calls the helper g and the built-in len; util.py  *)
(* defines g, which calls itself, reads API_KEY and uses json, and reads    *)
(* DEBUG at module level.  No two files define the same function name.      *)
(***************************************************************************)
AppPath == "app.py"
UtilPath == "util.py"

\* The assignments a file may hold: none; app = Flask(...);
\* app = Flask(...) and api = Flask(...); app = flask.Flask(...);
\* bp = Blueprint(...); bp = flask.Blueprint(...).
AssignLists ==
    {<<>>,
     <<Assign("app", "Name", "Flask")>>,
     <<Assign("app", "Name", "Flask"), Assign("api", "Name", "Flask")>>,
     <<Assign("app", "Attribute", "Flask")>>,
     <<Assign("bp", "Name", "Blueprint")>>,
     <<Assign("bp", "Attribute", "Blueprint")>>}

\* No keyword; methods=['GET', 'POST']; methods=[]; methods=[METHOD];
\* methods=METHODS.
MethodsKeywords ==
    {NoKeyword,
     ListKeyword(<<Literal("GET"), Literal("POST")>>),
     ListKeyword(<<>>),
     ListKeyword(<<NonLiteral>>),
     OtherKeyword}

\* What the body of r does with a database: nothing; conn.execute(...);
\* get_db().cursor(); import sqlite3.
NoDb == [calls |-> {}, local_imports |-> {}]
DbFacts ==
    {NoDb,
     [calls |-> {Call("conn", "execute")}, local_imports |-> {}],
     [calls |-> {Call(OnExpression, "cursor"), Call("", "get_db")}, local_imports |-> {}],
     [calls |-> {}, local_imports |-> {"sqlite3"}]}

\* from flask import request; import os; import sqlite3; import psycopg2;
\* from util import g
AppImports ==
    <<ImportDefinition("flask.request", "request"), ImportDefinition("os", "os"),
      ImportDefinition("sqlite3", "sqlite3"), ImportDefinition("psycopg2", "psycopg2"),
      ImportDefinition("util.g", "g")>>

\* import os; import json
UtilImports == <<ImportDefinition("os", "os"), ImportDefinition("json", "json")>>

RouteR(receiver, kw, db, reparses) ==
    FunctionDef("r", <<Decorator(receiver, "route", "/r", kw)>>,
                {Call("", "g"), Call("", "len")} \cup db.calls,
                {"DATABASE_URL"}, db.local_imports, {"request", "os"}, reparses)

HelperG(reparses) ==
    FunctionDef("g", <<>>, {Call("", "g"), Call("os", "getenv"), Call("json", "dumps")},
                {"API_KEY"}, {}, {}, reparses)

AppFile(assigns, receiver, kw, db, reparses) ==
    FileAst(TRUE, assigns, AppImports, <<RouteR(receiver, kw, db, reparses)>>, {})

UtilFile(parses, assigns, reparses) ==
    FileAst(parses, assigns, UtilImports, <<HelperG(reparses)>>, {"DEBUG"})

Tree(app, util) == [p \in {AppPath, UtilPath} |-> IF p = AppPath THEN app ELSE util]

\* A second route s of app.py, and a function u whose route decorator has
\* the given first argument.
RouteS == FunctionDef("s", <<Decorator("app", "route", "/s", NoKeyword)>>, {}, {}, {}, {}, TRUE)
Unrouted(path) ==
    FunctionDef("u", <<Decorator("app", "route", path, NoKeyword)>>, {Call("", "g")},
                {}, {}, {}, TRUE)

AppFileOf(defs) == FileAst(TRUE, <<Assign("app", "Name", "Flask")>>, AppImports, defs, {})

PlainApp == AppFile(<<Assign("app", "Name", "Flask")>>, "app", NoKeyword, NoDb, TRUE)
PlainUtil == UtilFile(TRUE, <<>>, TRUE)

\* A helper g of app.py, which calls h of app.py; util.py defines a g too.
LocalG == FunctionDef("g", <<>>, {Call("", "h")}, {}, {}, {}, TRUE)
HelperH == FunctionDef("h", <<>>, {}, {}, {}, {}, TRUE)

\* Applications in which app.py and util.py both define g, and, for
\* comparison, one in which they do not.
CollidingTrees ==
    {Tree(AppFileOf(<<RouteR("app", NoKeyword, NoDb, TRUE), LocalG, HelperH>>),
          UtilFile(ps, <<>>, TRUE)) : ps \in BOOLEAN}
    \cup {Tree(PlainApp, PlainUtil)}

SourceTrees ==
    {Tree(AppFile(as, rc, NoKeyword, NoDb, TRUE), PlainUtil) :
        as \in AssignLists, rc \in {"app", "bp"}}
    \cup {Tree(AppFile(<<>>, rc, NoKeyword, NoDb, TRUE), UtilFile(TRUE, as, TRUE)) :
        as \in AssignLists, rc \in {"app", "bp"}}
    \cup {Tree(AppFile(<<Assign("app", "Name", "Flask")>>, "app", kw, NoDb, TRUE),
               PlainUtil) : kw \in MethodsKeywords}
    \cup {Tree(AppFile(<<Assign("app", "Name", "Flask")>>, "app", NoKeyword, db, rp),
               PlainUtil) : db \in DbFacts, rp \in BOOLEAN}
    \cup {Tree(PlainApp, UtilFile(ps, <<Assign("api", "Name", "Flask")>>, rp)) :
        ps \in BOOLEAN, rp \in BOOLEAN}
    \cup {Tree(PlainApp, UtilFile(TRUE, <<Assign("app", "Attribute", "Blueprint")>>, TRUE)),
          Tree(AppFile(<<Assign("app", "Name", "Flask"),
                         Assign("app", "Attribute", "Blueprint")>>,
                       "app", NoKeyword, NoDb, TRUE), PlainUtil)}
    \cup {Tree(AppFileOf(<<Unrouted(path), RouteS>>), PlainUtil) :
        path \in {"", ComputedPath}}
    \cup {Tree(AppFileOf(<<RouteS, Unrouted(path)>>), PlainUtil) :
        path \in {"", ComputedPath}}

(***************************************************************************)
(* parse() and parse_file() up to extract_functions                         *)
(* (flask_parser.py:41-156).                                                *)
(***************************************************************************)
extractVars == <<idx, stack, resolved, visited, function, functions, result>>

scanVars_but_step == <<sources, python_files, flask_apps, flask_blueprints, app_name,
                       env_vars, fidx, visits>>

CurrentFile == python_files[fidx]
CurrentAst == sources[CurrentFile]

\* A new FlaskApplicationParser over one of the given source trees.
NewParser(trees) ==
    /\ sources \in trees
    /\ python_files = <<>>
    /\ flask_apps = {}
    /\ flask_blueprints = {}
    /\ app_name = "app"
    /\ env_vars = {}
    /\ fidx = 1
    /\ step = "imports"
    /\ visits = {}
    /\ all_functions = [n \in {} |-> FuncInfo(n)]
    /\ all_function_calls = [n \in {} |-> {}]
    /\ routes = <<>>
    /\ imports_by_file = [p \in {} |-> <<>>]
    /\ source_info = [n \in {} |-> NoCallInfo]
    /\ pc = "start"
    /\ idx = 1
    /\ stack = <<>>
    /\ resolved = {}
    /\ visited = {}
    /\ function = NewFunction(RouteRecord("r"), FALSE)
    /\ functions = <<>>
    /\ result = <<>>
    /\ FixIdle
    /\ TextIdle

\* parse() or parse_file() called directly on a new parser.
InitScan == NewParser(SourceTrees) /\ CliIdle

InitCollide == NewParser(CollidingTrees) /\ CliIdle

\* parse(), line 43: find_python_files lists the .py files in the order
\* os.walk yields them.
FindPythonFiles ==
    /\ pc = "start"
    /\ python_files' \in Orderings(DOMAIN sources)
    /\ pc' = "find_flask_apps"
    /\ UNCHANGED <<sources, flask_apps, flask_blueprints, app_name, env_vars, fidx,
                   step, visits>>
    /\ UNCHANGED <<inputVars, extractVars, fixVars, textVars, cliVars>>

\* parse_file(), line 57: the one file given.
ParseFile ==
    /\ pc = "start"
    /\ \E p \in DOMAIN sources : python_files' = <<p>>
    /\ pc' = "find_flask_apps"
    /\ UNCHANGED <<sources, flask_apps, flask_blueprints, app_name, env_vars, fidx,
                   step, visits>>
    /\ UNCHANGED <<inputVars, extractVars, fixVars, textVars, cliVars>>

\* find_flask_apps, lines 86-102: one file is read, parsed and visited.
FindFlaskApps ==
    /\ pc = "find_flask_apps" /\ fidx <= Len(python_files)
    /\ CurrentAst.parses
    /\ flask_apps' = flask_apps \cup FlaskAppVisitor(CurrentAst).flask_apps
    /\ flask_blueprints' =
         flask_blueprints \cup FlaskAppVisitor(CurrentAst).flask_blueprints
    /\ visits' = visits \cup {<<1, CurrentFile, "ok">>}
    /\ fidx' = fidx + 1
    /\ UNCHANGED <<sources, python_files, app_name, env_vars, step>>
    /\ UNCHANGED <<inputVars, pc, extractVars, fixVars, textVars, cliVars>>

\* find_flask_apps, lines 104-105: reading, parsing or visiting the file
\* raises; the error is logged.
FindFlaskAppsFail ==
    /\ pc = "find_flask_apps" /\ fidx <= Len(python_files)
    /\ visits' = visits \cup {<<1, CurrentFile, "failed">>}
    /\ fidx' = fidx + 1
    /\ UNCHANGED <<sources, python_files, flask_apps, flask_blueprints, app_name,
                   env_vars, step>>
    /\ UNCHANGED <<inputVars, pc, extractVars, fixVars, textVars, cliVars>>

\* next(iter(S)) for a non-empty set of strings S: the iteration order of a
\* set of strings is not specified and differs between runs.
FirstOfSet(S, default) == IF S # {} THEN S ELSE {default}

\* find_flask_apps, lines 106-107, and the start of analyze_files.
FindFlaskAppsEnd ==
    /\ pc = "find_flask_apps" /\ fidx > Len(python_files)
    /\ app_name' \in FirstOfSet(flask_apps, app_name)
    /\ pc' = "analyze_files"
    /\ fidx' = 1
    /\ step' = "imports"
    /\ UNCHANGED <<sources, python_files, flask_apps, flask_blueprints, env_vars,
                   visits>>
    /\ UNCHANGED <<inputVars, extractVars, fixVars, textVars, cliVars>>

\* analyze_files, lines 113-122: the file is read and parsed and its
\* imports are collected.
AnalyzeImports ==
    /\ pc = "analyze_files" /\ fidx <= Len(python_files) /\ step = "imports"
    /\ CurrentAst.parses
    /\ imports_by_file' = (CurrentFile :> CurrentAst.imports) @@ imports_by_file
    /\ step' = "functions"
    /\ UNCHANGED <<all_functions, all_function_calls, routes, source_info>>
    /\ UNCHANGED <<scanVars_but_step, pc, extractVars, fixVars, textVars, cliVars>>

\* Mutant of AnalyzeFunctions: an entry already in the catalog is kept.
AnalyzeFunctions_FirstWins ==
    /\ pc = "analyze_files" /\ fidx <= Len(python_files) /\ step = "functions"
    /\ all_functions' = all_functions @@ FunctionDefinitionVisitor(CurrentAst, CurrentFile)
    /\ source_info' = SourceInfos(CurrentAst) @@ source_info
    /\ step' = "routes"
    /\ UNCHANGED <<all_function_calls, routes, imports_by_file>>
    /\ UNCHANGED <<scanVars_but_step, pc, extractVars, fixVars, textVars, cliVars>>

\* Mutant of AnalyzeFunctions: the definitions of the file replace the
\* catalog.
AnalyzeFunctions_Replaces ==
    /\ pc = "analyze_files" /\ fidx <= Len(python_files) /\ step = "functions"
    /\ all_functions' = FunctionDefinitionVisitor(CurrentAst, CurrentFile)
    /\ source_info' = SourceInfos(CurrentAst) @@ source_info
    /\ step' = "routes"
    /\ UNCHANGED <<all_function_calls, routes, imports_by_file>>
    /\ UNCHANGED <<scanVars_but_step, pc, extractVars, fixVars, textVars, cliVars>>

\* analyze_files, lines 123-129: the definitions enter the catalog.
AnalyzeFunctions ==
    /\ pc = "analyze_files" /\ fidx <= Len(python_files) /\ step = "functions"
    /\ all_functions' = FunctionDefinitionVisitor(CurrentAst, CurrentFile) @@ all_functions
    /\ source_info' = SourceInfos(CurrentAst) @@ source_info
    /\ step' = "routes"
    /\ UNCHANGED <<all_function_calls, routes, imports_by_file>>
    /\ UNCHANGED <<scanVars_but_step, pc, extractVars, fixVars, textVars, cliVars>>

\* analyze_files, lines 130-141: the routes of the file are appended.
AnalyzeRoutes ==
    /\ pc = "analyze_files" /\ fidx <= Len(python_files) /\ step = "routes"
    /\ routes' = routes \o FlaskRouteVisitor(CurrentAst.defs, CurrentFile, flask_apps,
                                             flask_blueprints)
    /\ step' = "calls"
    /\ UNCHANGED <<all_functions, all_function_calls, imports_by_file, source_info>>
    /\ UNCHANGED <<scanVars_but_step, pc, extractVars, fixVars, textVars, cliVars>>

\* analyze_files, lines 142-147: the calls of every definition are recorded.
AnalyzeCalls ==
    /\ pc = "analyze_files" /\ fidx <= Len(python_files) /\ step = "calls"
    /\ all_function_calls' = FunctionCallVisitor(CurrentAst) @@ all_function_calls
    /\ step' = "env"
    /\ UNCHANGED <<all_functions, routes, imports_by_file, source_info>>
    /\ UNCHANGED <<scanVars_but_step, pc, extractVars, fixVars, textVars, cliVars>>

\* analyze_files, lines 148-150: the environment keys of the file are
\* added; the loop moves to the next file.
AnalyzeEnv ==
    /\ pc = "analyze_files" /\ fidx <= Len(python_files) /\ step = "env"
    /\ env_vars' = env_vars \cup EnvVarDetector(CurrentAst)
    /\ visits' = visits \cup {<<2, CurrentFile, "ok">>}
    /\ fidx' = fidx + 1
    /\ step' = "imports"
    /\ UNCHANGED <<sources, python_files, flask_apps, flask_blueprints, app_name>>
    /\ UNCHANGED <<inputVars, pc, extractVars, fixVars, textVars, cliVars>>

\* Mutant of AnalyzeFail: the exception ends the loop over the files.
AnalyzeFail_EndsLoop ==
    /\ pc = "analyze_files" /\ fidx <= Len(python_files)
    /\ visits' = visits \cup {<<2, CurrentFile, step>>}
    /\ fidx' = Len(python_files) + 1
    /\ step' = "imports"
    /\ UNCHANGED <<sources, python_files, flask_apps, flask_blueprints, app_name,
                   env_vars>>
    /\ UNCHANGED <<inputVars, pc, extractVars, fixVars, textVars, cliVars>>

\* analyze_files, lines 152-153: the step the file has reached raises; the
\* error is logged and the loop moves to the next file.
AnalyzeFail ==
    /\ pc = "analyze_files" /\ fidx <= Len(python_files)
    /\ visits' = visits \cup {<<2, CurrentFile, step>>}
    /\ fidx' = fidx + 1
    /\ step' = "imports"
    /\ UNCHANGED <<sources, python_files, flask_apps, flask_blueprints, app_name,
                   env_vars>>
    /\ UNCHANGED <<inputVars, pc, extractVars, fixVars, textVars, cliVars>>

\* analyze_files returns (lines 155-156); extract_functions starts.
AnalyzeFilesEnd ==
    /\ pc = "analyze_files" /\ fidx > Len(python_files)
    /\ pc' = "extract"
    /\ idx' = 1
    /\ UNCHANGED <<scanVars, inputVars, stack, resolved, visited, function, functions,
                   result, fixVars, textVars, cliVars>>

NextScan ==
    \/ FindPythonFiles
    \/ ParseFile
    \/ FindFlaskApps
    \/ FindFlaskAppsFail
    \/ FindFlaskAppsEnd
    \/ AnalyzeImports
    \/ AnalyzeFunctions
    \/ AnalyzeRoutes
    \/ AnalyzeCalls
    \/ AnalyzeEnv
    \/ AnalyzeFail
    \/ AnalyzeFilesEnd
    \/ Next

\* parse() or parse_file() from a new parser to its result.
SpecScan == InitScan /\ [][NextScan]_vars

\* The same over applications whose files may define the same name.
SpecCollide == InitCollide /\ [][NextScan]_vars

(***************************************************************************)
(* Claims about the dependency closure and the descriptors.                *)
(***************************************************************************)
\* Every ServerlessFunction built so far, and the one under construction.
Descriptors == Range(functions) \cup {function}

\* A variant of parse(): the work left, as a natural number.  A resolver
\* frame weighs its unreached direct_deps plus one; a name not yet visited
\* weighs more than any frame; a route not yet extracted weighs more than
\* any resolution; a descriptor not yet serialized weighs one.
FrameWeight == Cardinality(Targets) + 1
RECURSIVE StackWeight(_)
StackWeight(stk) ==
    IF stk = <<>> THEN 0
    ELSE Cardinality(stk[Len(stk)].todo) + 1 + StackWeight(SubSeq(stk, 1, Len(stk) - 1))
ResolveWeight ==
    1 + FrameWeight * Cardinality(FuncNames \ visited) + StackWeight(stack)
RouteWeight == 2 + FrameWeight * (Cardinality(FuncNames) + 1)
ToDictWeight == Len(routes) + 3
Measure ==
    CASE pc = "done"    -> 0
      [] pc = "to_dict" -> 1 + (Len(functions) + 1 - idx)
      [] pc = "extract" -> ToDictWeight + (Len(routes) + 1 - idx) * RouteWeight
      [] pc = "resolve" -> ToDictWeight + (Len(routes) - idx) * RouteWeight
                              + ResolveWeight

NoBuiltinResolved ==
    /\ resolved \cap Builtins = {}
    /\ \A d \in Descriptors : d.dependencies \cap Builtins = {}

\* C1: on every call graph over the catalog, cycles and self-calls included,
\* the closure resolution terminates (parse() reaches its end, every step
\* strictly decreasing a natural-number variant), and neither the resolved
\* set nor any descriptor's dependencies ever holds a built-in name, also
\* when the catalog defines a function called "len".
C1_TerminatesWithoutBuiltins ==
    /\ []NoBuiltinResolved
    /\ [][Measure' < Measure /\ Measure' >= 0]_vars
    /\ <>(pc = "done")

\* C1 witness: a finished run in which route r calls f, f calls itself and
\* the built-in-named "len", and the catalog defines "len".
C1_Witness ==
    /\ pc = "done"
    /\ "len" \in DOMAIN all_functions
    /\ "r" \in DOMAIN all_function_calls /\ "f" \in DOMAIN all_function_calls
    /\ "f" \in all_function_calls["r"]
    /\ {"f", "len"} \subseteq all_function_calls["f"]
    /\ functions[1].dependencies = {"f"}

\* The reference closure of R: the least set S such that every direct-name
\* call target of R or of a member of S that is a catalog name and not a
\* built-in is in S, computed by iterating from the empty set.
BareNames == {t \in Targets : t \notin {"o.f"}}
CallTargets(x) ==
    IF x \in DOMAIN all_function_calls THEN all_function_calls[x] ELSE {}
ClosureStep(R, S) ==
    S \cup {d \in UNION {CallTargets(x) : x \in S \cup {R}} :
              d \in BareNames /\ d \in DOMAIN all_functions /\ d \notin Builtins}
RECURSIVE ClosureFrom(_, _)
ClosureFrom(R, S) ==
    IF ClosureStep(R, S) = S THEN S ELSE ClosureFrom(R, ClosureStep(R, S))
RefClosure(R) == ClosureFrom(R, {})

\* C2: the dependencies of every assembled descriptor are the reference
\* closure of its route; external names and attribute-style targets add
\* nothing, a route that calls nothing has none, a route with one leaf
\* helper has exactly that helper.
C2_DependenciesAreClosure ==
    \A i \in 1..Len(functions) :
        /\ functions[i].dependencies = RefClosure(functions[i].name)
        /\ functions[i].dependencies \cap {"ext", "o.f"} = {}
        /\ CallTargets(functions[i].name) = {} => functions[i].dependencies = {}
        /\ (CallTargets(functions[i].name) = {"f"} /\ CallTargets("f") = {}
              /\ "f" \in DOMAIN all_functions)
           => functions[i].dependencies = {"f"}

\* C2 witness: r calls f and the attribute-style o.f, f calls g: the
\* closure of r is {f, g}, two levels deep.
C2_Witness ==
    /\ pc = "done"
    /\ "r" \in DOMAIN all_function_calls /\ "f" \in DOMAIN all_function_calls
    /\ all_function_calls["r"] = {"f", "o.f"}
    /\ all_function_calls["f"] = {"g"}
    /\ functions[1].dependencies = {"f", "g"}

\* C3: no descriptor lists its own route among its dependencies.
C3_NoSelfDependency ==
    \A i \in 1..Len(functions) : functions[i].name \notin functions[i].dependencies

\* C4: in every assembled and every serialized descriptor, each key of
\* dependency_sources is one of its dependencies and a catalog name, and
\* its value is the catalog entry's source.
C4_DependencySourcesFromCatalog ==
    /\ \A d \in Descriptors :
         \A k \in DOMAIN d.dependency_sources :
            /\ k \in d.dependencies
            /\ k \in DOMAIN all_functions
            /\ d.dependency_sources[k] = all_functions[k].source
    /\ \A j \in 1..Len(result) :
         \A k \in DOMAIN result[j].dependency_sources :
            /\ k \in Range(result[j].dependencies)
            /\ k \in DOMAIN all_functions
            /\ result[j].dependency_sources[k] = all_functions[k].source

\* C4 witness: a serialized descriptor of r that carries the sources of its
\* two dependencies f and g, while the catalog also defines "len".
C4_Witness ==
    /\ pc = "done"
    /\ "len" \in DOMAIN all_functions
    /\ result[1].name = "r"
    /\ DOMAIN result[1].dependency_sources = {"f", "g"}
    /\ DOMAIN functions[1].dependency_sources = {"f", "g"}

HasDuplicate(seq) == \E i, j \in 1..Len(seq) : i # j /\ seq[i] = seq[j]

\* C5: no descriptor, assembled or serialized, lists the same
\* (module, alias) pair twice in its imports.
C5_NoDuplicateImports ==
    /\ \A d \in Descriptors : ~HasDuplicate(d.imports)
    /\ \A j \in 1..Len(result) : ~HasDuplicate(result[j].imports)

(***************************************************************************)
(* Claims about the method-list normalizer.                                *)
(***************************************************************************)
\* methods=['G', 'P']
QuotedPairText == <<"M", "'", "G", "'", ",", "'", "P", "'", "]">>

\* C6: when fix_http_methods returns, it returns True exactly when the
\* file's content differs from what it was at the call (False when nothing
\* needed correcting, False after a failed read or write).
C6_ReturnsTrueIffChanged ==
    fpc = "returned" => (ret <=> files[file_path] # entry[file_path])

\* C7: when fix_directory returns, its list holds exactly the files whose
\* content the run changed.
C7_FixedFilesAreChangedFiles ==
    (fpc = "idle" /\ runs >= 1) =>
        Range(fixed_files) = {p \in DOMAIN files : files[p] # entry[p]}

\* C8: a file that held methods=[G, P] reads methods=['G', 'P'] after one
\* run and its .bak holds the original; after a second run the file is the
\* same and the .bak still holds the original (no I/O failure occurring).
C8_SecondRunChangesNothing ==
    (fpc = "idle" /\ runs >= 1 /\ ~failed /\ initial.files["a.py"] = PairText) =>
        /\ files["a.py"] = QuotedPairText
        /\ backups["a.py"] = {PairText}

\* C9: applying the two substitutions to the output of a first application
\* gives that output again.
C9_TransformIdempotent ==
    Len(texts) = 3 => texts[3] = texts[2]

\* C9 witness: methods=[G, P] was rewritten by the first application and
\* the second application has run.
C9_Witness ==
    /\ Len(texts) = 3
    /\ texts[1] = PairText
    /\ texts[2] = QuotedPairText

\* C10 as claimed: the primary file is opened for writing only after this
\* call wrote a backup that holds the pre-modification content; and a
\* call whose rewrite changes nothing does not write the primary file.
UnchangedNotWritten ==
    (fpc = "returned" /\ backup_state # "none"
        /\ FixText(original_content) = original_content) =>
    (~wrote /\ files[file_path] = entry[file_path])

C10_OverwriteOnlyAfterBackup ==
    /\ [][(wrote' /\ ~wrote) =>
            (backup_state = "ok" /\ backups[file_path] = {files[file_path]})]_vars
    /\ []UnchangedNotWritten

\* C10 as amended: the primary file is opened for writing only after the
\* backup copy was attempted in this call, and if that copy succeeded the
\* .bak holds the pre-modification content at that moment; the content of
\* the file changes by that write only; and a call whose rewrite changes
\* nothing does not write the primary file.
C10_OverwriteOnlyAfterBackupAttempt ==
    /\ [][(wrote' /\ ~wrote) =>
            /\ backup_state \in {"ok", "failed"}
            /\ backup_state = "ok" => backups[file_path] = {files[file_path]}]_vars
    /\ [][files' # files => (wrote' /\ ~wrote)]_vars
    /\ []UnchangedNotWritten

\* C10 witness: a call that backed the file up, then overwrote it with the
\* corrected content.
C10_Witness ==
    /\ fpc = "returned" /\ ret /\ wrote
    /\ backup_state = "ok"
    /\ backups[file_path] = {original_content}
    /\ original_content = PairText
    /\ files[file_path] = QuotedPairText

\* The steps in which an I/O operation of fix_http_methods fails.
BackupFailedStep == backup_state = "none" /\ backup_state' = "failed"
ReadFailedStep == fpc = "read" /\ fpc' # "backup"
WriteFailedStep == fpc = "write" /\ files'[file_path] # content

\* C11: a failed backup leaves the call at its rewrite, and a call that
\* returns True after it has left the file corrected; a failed read or
\* write of the primary file ends the call with False; after any return
\* fix_directory goes on with the files os.walk has still to yield, every
\* one of which is handed to fix_http_methods before the run ends; and a
\* call that returned False adds nothing to fixed_files.
C11_FailuresAreContained ==
    /\ [][BackupFailedStep => fpc' = "rewrite"]_vars
    /\ [](fpc = "returned" /\ backup_state = "failed" /\ ret
            => files[file_path] = FixText(entry[file_path]))
    /\ [][ReadFailedStep => (fpc' = "returned" /\ ~ret' /\ files' = files)]_vars
    /\ [][WriteFailedStep => (fpc' = "returned" /\ ~ret')]_vars
    /\ [][fpc = "returned" =>
            /\ fpc' = "next" /\ walk' = walk
            /\ ~ret => fixed_files' = fixed_files]_vars
    /\ [][walk' # walk =>
            \/ fpc = "idle" /\ walk' = PyFiles
            \/ /\ walk # <<>> /\ walk' = Tail(walk)
               /\ file_path' = Head(walk) /\ fpc' = "read"]_vars
    /\ [][runs' # runs => walk = <<>>]_vars

\* C11 witness: a finished run in which a.py, which needed correcting, was
\* left as it was by a failed read or write and is not reported, while
\* b.py after it was corrected and reported.
C11_Witness ==
    /\ fpc = "idle" /\ runs = 1 /\ failed
    /\ entry["a.py"] = PairText /\ files["a.py"] = PairText
    /\ entry["b.py"] = PairText /\ files["b.py"] = QuotedPairText
    /\ fixed_files = <<"b.py">>

(***************************************************************************)
(* Claims about parse(): discovery, per-file analysis, descriptors.        *)
(***************************************************************************)
\* analyze_files has returned.
ScanDone == python_files # <<>> /\ pc \in {"extract", "resolve", "to_dict", "done"}

\* File p was visited in the given phase with the given outcome.
Visited(phase, p, outcome) == <<phase, p, outcome>> \in visits

\* Phase 2 of file p got past the given steps without raising.
PassedSteps(p, steps) ==
    /\ p \in Range(python_files)
    /\ \A s \in steps : ~Visited(2, p, s)

\* Symbol X is assigned the result of a call of the application or the
\* blueprint constructor, by its bare name or as an attribute of a module,
\* in a file that phase 1 scanned successfully.
BoundToConstructor(X) ==
    \E p \in Range(python_files) :
        /\ Visited(1, p, "ok")
        /\ \E i \in 1..Len(sources[p].assigns) :
              /\ sources[p].assigns[i].target = X
              /\ sources[p].assigns[i].callee \in {"Flask", "Blueprint"}

\* Every phase-1 visit precedes every phase-2 step: the symbol sets change
\* only in find_flask_apps, and analyze_files touches the shared structures
\* only when phase 1 has visited every file.
PhaseOrder ==
    /\ [][(flask_apps' # flask_apps \/ flask_blueprints' # flask_blueprints)
            => pc = "find_flask_apps"]_vars
    /\ [][(inputVars' # inputVars \/ env_vars' # env_vars) =>
            /\ pc = "analyze_files"
            /\ \A p \in Range(python_files) :
                  Visited(1, p, "ok") \/ Visited(1, p, "failed")]_vars

\* Every definition decorated with X.route('/path', ...) in a file whose
\* phase 2 got past the route visitor has a route record owned by X,
\* whenever X is bound to a constructor in a successfully scanned file.
RoutesRecognised ==
    ScanDone =>
      \A p \in Range(python_files) :
        PassedSteps(p, {"imports", "functions", "routes"}) =>
          \A d \in Range(sources[p].defs) :
            \A k \in 1..Len(d.decorators) :
              (/\ d.decorators[k].attr = "route"
               /\ PathLiteral(d.decorators[k]) # ""
               /\ BoundToConstructor(d.decorators[k].receiver))
              => \E i \in 1..Len(routes) :
                    /\ routes[i].name = d.name
                    /\ routes[i].file_path = p
                    /\ routes[i].app_name = d.decorators[k].receiver

\* C12: phase 1 finishes for every file before phase 2 of any file starts,
\* and a function decorated with X.route(...) is recognised as a route
\* whenever X is bound to an application or blueprint constructor in any
\* successfully scanned file, in either visit order.
C12_DiscoveryBeforeAnalysis == PhaseOrder /\ []RoutesRecognised

\* The names file p defines.
DefinedIn(p) == {sources[p].defs[i].name : i \in 1..Len(sources[p].defs)}

\* No exception ends the run: every step but the last has a successor, and
\* once analyze_files has returned every listed file has been visited in
\* both phases, the files that did not raise having contributed all of
\* their imports, definitions, calls and environment keys.
RunNeverAborts ==
    /\ (python_files # <<>> /\ pc # "done") => ENABLED NextScan
    /\ ScanDone =>
         \A p \in Range(python_files) :
            /\ Visited(1, p, "ok") \/ Visited(1, p, "failed")
            /\ \E o \in {"ok", "imports", "functions", "routes", "calls", "env"} :
                  Visited(2, p, o)
            /\ Visited(2, p, "ok") =>
                  /\ p \in DOMAIN imports_by_file
                  /\ imports_by_file[p] = sources[p].imports
                  /\ DefinedIn(p) \subseteq DOMAIN all_functions
                  /\ DefinedIn(p) \subseteq DOMAIN all_function_calls
                  /\ EnvVarDetector(sources[p]) \subseteq env_vars

\* A file whose phase-1 visit raised contributes no symbol.
FailedScanAddsNothing ==
    /\ flask_apps \subseteq
         UNION {FlaskAppVisitor(sources[p]).flask_apps :
                   p \in {q \in Range(python_files) : Visited(1, q, "ok")}}
    /\ flask_blueprints \subseteq
         UNION {FlaskAppVisitor(sources[p]).flask_blueprints :
                   p \in {q \in Range(python_files) : Visited(1, q, "ok")}}

\* A file whose phase-2 visit raised at some step adds nothing at that step
\* or after it: no import list if it raised before the imports were
\* stored, no catalog entry if it raised up to the definition visitor, no
\* route up to the route visitor, no call-graph entry up to the call
\* visitor, no environment key at all.
FailedAnalysisAddsNothing ==
    /\ \A p \in DOMAIN imports_by_file : PassedSteps(p, {"imports"})
    /\ \A n \in DOMAIN all_functions :
          PassedSteps(all_functions[n].file_path, {"imports", "functions"})
    /\ \A i \in 1..Len(routes) :
          PassedSteps(routes[i].file_path, {"imports", "functions", "routes"})
    /\ \A n \in DOMAIN all_function_calls :
          \E p \in Range(python_files) :
             /\ n \in DefinedIn(p)
             /\ PassedSteps(p, {"imports", "functions", "routes", "calls"})
    /\ \A k \in env_vars :
          \E p \in Range(python_files) :
             /\ k \in EnvVarDetector(sources[p])
             /\ PassedSteps(p, {"imports", "functions", "routes", "calls", "env"})

\* C13: an exception raised while one file is processed, in phase 1 or in
\* phase 2, does not end the run; the other files are processed and
\* parse() reaches its result; the failed file contributes no symbol
\* (phase 1) and nothing after the failing step (phase 2).
C13_FileFailuresContained ==
    RunNeverAborts /\ FailedScanAddsNothing /\ FailedAnalysisAddsNothing

\* C13 witness: parse() has returned after app.py raised in the call
\* visitor and util.py, visited after it, was analysed in full: the route
\* of app.py is there, its call-graph entry is not, the helper's is.
C13_Witness ==
    /\ pc = "done"
    /\ python_files = <<AppPath, UtilPath>>
    /\ Visited(2, AppPath, "calls") /\ Visited(2, UtilPath, "ok")
    /\ Len(routes) = 1 /\ Len(result) = 1
    /\ DOMAIN all_function_calls = {"g"}
    /\ DOMAIN all_functions = {"r", "g"}
    /\ "API_KEY" \in env_vars /\ "DATABASE_URL" \notin env_vars

\* The decorators from which the route visitor built record rec: those of
\* the definition rec.name of file rec.file_path whose receiver owns rec.
DecoratorsOf(rec) ==
    IF rec.file_path \in DOMAIN sources
    THEN {dec \in UNION {Range(d.decorators) :
                           d \in {x \in Range(sources[rec.file_path].defs) :
                                    x.name = rec.name}} :
            dec.receiver = rec.app_name /\ dec.attr = "route"}
    ELSE {}

\* A record with no methods keyword in its decorator has methods ["GET"].
DefaultIsGet(rec) ==
    \A dec \in DecoratorsOf(rec) : ~dec.methods.given => rec.methods = <<"GET">>

\* C14: a route whose decorator supplies no methods keyword has the methods
\* ["GET"] in its route record, in its ServerlessFunction and in its
\* serialized descriptor.
C14_NoMethodsKeywordMeansGet ==
    /\ \A i \in 1..Len(routes) : DefaultIsGet(routes[i])
    /\ \A i \in 1..Len(functions) : DefaultIsGet(functions[i])
    /\ \A j \in 1..Len(result) : DefaultIsGet(result[j])

\* C14 witness: parse() has returned the descriptor of r, whose decorator
\* @app.route('/r') names no methods.
C14_Witness ==
    /\ pc = "done"
    /\ Len(result) = 1 /\ result[1].name = "r"
    /\ result[1].methods = <<"GET">> /\ routes[1].methods = <<"GET">>
    /\ \E dec \in DecoratorsOf(result[1]) : dec.methods = NoKeyword

\* C15: methods has at least one element in every route record, in every
\* ServerlessFunction (assembled or under construction) and in every
\* serialized descriptor.
C15_MethodsNeverEmpty ==
    /\ \A i \in 1..Len(routes) : routes[i].methods # <<>>
    /\ \A i \in 1..Len(functions) : functions[i].methods # <<>>
    /\ function.methods # <<>>
    /\ \A j \in 1..Len(result) : result[j].methods # <<>>

\* No visit of a file has raised.
NoVisitRaised == \A v \in visits : v[3] = "ok"

\* The environment keys the body of function n reads.
EnvOf(n) ==
    UNION {d.env : d \in {x \in UNION {Range(sources[p].defs) : p \in DOMAIN sources} :
                            x.name = n}}

\* C16: when no file raised, the env_vars of every serialized descriptor
\* are the keys read by its handler and by its dependencies, no more and
\* no fewer.
C16_EnvVarsOfHandlerAndClosure ==
    (pc = "done" /\ NoVisitRaised) =>
        \A j \in 1..Len(result) :
            Range(result[j].env_vars) =
                EnvOf(result[j].name)
                \cup UNION {EnvOf(dep) : dep \in Range(result[j].dependencies)}

\* The module path contains a keyword of DatabaseDetector.db_modules.
ClassifierKnows(module) ==
    \E i \in 1..Len(detector_db_modules) : Contains(module, detector_db_modules[i])

\* C17: the serialized descriptor of a route flagged requires_db lists
\* every import of the route's file whose module path contains a database
\* keyword known to the classifier.
C17_DatabaseImportsKept ==
    \A j \in 1..Len(result) :
        (result[j].requires_db /\ result[j].file_path \in DOMAIN imports_by_file) =>
            \A imp \in Range(imports_by_file[result[j].file_path]) :
                ClassifierKnows(imp.module) => imp \in Range(result[j].imports)

\* The definitions named n in the scanned files.
DefsNamed(n) ==
    {x \in UNION {Range(sources[p].defs) : p \in DOMAIN sources} : x.name = n}

\* The body of d imports a module whose name contains a database keyword.
ImportsDatabaseModule(d) == \E m \in d.local_imports : ClassifierKnows(m)

\* The body of d calls, on some receiver, a characteristic database method.
CallsDatabaseMethod(d) ==
    \E c \in d.calls :
        /\ c.receiver # ""
        /\ c.func \in {"connect", "cursor", "execute", "query", "commit", "rollback"}

\* C18: the requires_db of every serialized descriptor is true exactly when
\* the route's function imports a database module or calls a database
\* method.
C18_RequiresDbIffDatabaseUse ==
    \A j \in 1..Len(result) :
        \A d \in DefsNamed(result[j].name) :
            result[j].requires_db <=> (ImportsDatabaseModule(d) \/ CallsDatabaseMethod(d))

\* The names the body of d refers to, as a name or as the root of an
\* attribute.
ReferencedNames(d) ==
    d.loads \cup {c.receiver : c \in {x \in d.calls : x.receiver \notin {"", OnExpression}}}
            \cup {c.func : c \in {x \in d.calls : x.receiver = ""}}

\* C19: when no file raised, the serialized descriptor of a route lists,
\* for every function of its dependency closure, every import of that
\* function's file whose alias the function's body refers to.
C19_DependencyImportsKept ==
    (pc = "done" /\ NoVisitRaised) =>
        \A j \in 1..Len(result) :
            \A dep \in Range(result[j].dependencies) :
                \A p \in DOMAIN sources :
                    \A d \in {x \in Range(sources[p].defs) : x.name = dep} :
                        \A imp \in Range(sources[p].imports) :
                            imp.alias \in ReferencedNames(d) =>
                                imp \in Range(result[j].imports)

\* The positions in python_files of the files whose discovery visit
\* succeeded and found an application symbol.
FilesWithApps ==
    {i \in 1..Len(python_files) :
        /\ Visited(1, python_files[i], "ok")
        /\ FlaskAppVisitor(sources[python_files[i]]).flask_apps # {}}

\* The first application symbol in file visit order and assignment order,
\* or the default name when there is none.
FirstDiscoveredApp ==
    IF FilesWithApps = {} THEN "app"
    ELSE LET i == CHOOSE x \in FilesWithApps : \A y \in FilesWithApps : x <= y
             assigns == sources[python_files[i]].assigns
             found == {k \in 1..Len(assigns) :
                          assigns[k].target \in
                              FlaskAppVisitor(sources[python_files[i]]).flask_apps}
             k == CHOOSE x \in found : \A y \in found : x <= y
         IN  assigns[k].target

\* C20: once discovery has ended, app_name is the first application symbol
\* discovered, or "app" when none was found.
C20_AppNameIsFirstDiscovered ==
    pc \notin {"start", "find_flask_apps"} => app_name = FirstDiscoveredApp

(***************************************************************************)
(* analyzer.py: analyze_app and analyze_file (lines 17-72).  Both run the   *)
(* parser inside one try block, serialize its result, print it or write it  *)
(* to the output file (which fix_http_methods then normalizes), and return  *)
(* 0; their except clause prints an error document and returns 1.           *)
(***************************************************************************)
\* A bytes literal used as a method: json.dumps cannot serialize it.
BytesGET == "b'GET'"

\* json.dumps(result, indent=2) (lines 25, 53) succeeds.
Serializable(res) == \A j \in 1..Len(res) : BytesGET \notin Range(res[j].methods)

\* The documents analyze_app emits.
ResultDoc ==
    [kind |-> "result", app_name |-> app_name, functions |-> result,
     normalized |-> FALSE]
ErrorDoc == [kind |-> "error", app_name |-> "", functions |-> <<>>, normalized |-> FALSE]

\* An output file a failed write has left truncated.
PartialFile == [kind |-> "partial", app_name |-> "", functions |-> <<>>,
                normalized |-> FALSE]

\* The source text of some descriptor holds an unquoted method list such
\* as methods=[METHOD], which fix_http_methods rewrites.
HasUnquotedMethods ==
    \E j \in 1..Len(result) :
        \E p \in DOMAIN sources :
            \E d \in {x \in Range(sources[p].defs) : x.name = result[j].name} :
                \E dec \in Range(d.decorators) :
                    /\ dec.methods.is_list
                    /\ dec.methods.elts # <<>>
                    /\ \A e \in Range(dec.methods.elts) : ~e.literal

CliTrees ==
    {Tree(AppFile(<<Assign("app", "Name", "Flask")>>, "app", kw, NoDb, TRUE), PlainUtil) :
        kw \in {NoKeyword, ListKeyword(<<Literal(BytesGET)>>), ListKeyword(<<NonLiteral>>)}}

\* analyze_app(app_path, output_file, fix_methods) or analyze_file(...) has
\* entered its try block with a new parser.
InitCli ==
    /\ NewParser(CliTrees)
    /\ cli = "try"
    /\ output_file \in BOOLEAN
    /\ fix_methods \in BOOLEAN
    /\ status = NoStatus
    /\ stdout = <<>>
    /\ out_file = NoFile
    /\ raised = FALSE

\* An exception leaves parse() / parse_file(): the recursion of
\* _resolve_all_dependencies (lines 329-353) is outside every try block of
\* the parser.
CliAnalysisRaises ==
    /\ cli = "try" /\ pc = "resolve"
    /\ pc' = "aborted"
    /\ cli' = "raised"
    /\ raised' = TRUE
    /\ UNCHANGED <<scanVars, inputVars, extractVars, fixVars, textVars>>
    /\ UNCHANGED <<output_file, fix_methods, status, stdout, out_file>>

\* Lines 25, 53: json.dumps returns the text of the result.
CliDumps ==
    /\ cli = "try" /\ pc = "done" /\ Serializable(result)
    /\ cli' = "dumped"
    /\ UNCHANGED <<analyzerVars, scanVars, fixVars, textVars>>
    /\ UNCHANGED <<output_file, fix_methods, status, stdout, out_file, raised>>

\* Lines 25, 53: json.dumps raises TypeError.
CliDumpsRaises ==
    /\ cli = "try" /\ pc = "done" /\ ~Serializable(result)
    /\ cli' = "raised"
    /\ raised' = TRUE
    /\ UNCHANGED <<analyzerVars, scanVars, fixVars, textVars>>
    /\ UNCHANGED <<output_file, fix_methods, status, stdout, out_file>>

\* Lines 37-39, 66-68: no output file; the text is printed and 0 returned.
CliPrint ==
    /\ cli = "dumped" /\ ~output_file
    /\ stdout' = Append(stdout, ResultDoc)
    /\ status' = 0
    /\ cli' = "returned"
    /\ UNCHANGED <<analyzerVars, scanVars, fixVars, textVars>>
    /\ UNCHANGED <<output_file, fix_methods, out_file, raised>>

\* Lines 28-31, 56-59: the text is written to the output file.
CliWrite ==
    /\ cli = "dumped" /\ output_file
    /\ out_file' = ResultDoc
    /\ cli' = "written"
    /\ UNCHANGED <<analyzerVars, scanVars, fixVars, textVars>>
    /\ UNCHANGED <<output_file, fix_methods, status, stdout, raised>>

\* Lines 29-30, 57-58: open() or write() raises; the file is missing or
\* truncated.
CliWriteRaises ==
    /\ cli = "dumped" /\ output_file
    /\ out_file' \in {NoFile, PartialFile}
    /\ cli' = "raised"
    /\ raised' = TRUE
    /\ UNCHANGED <<analyzerVars, scanVars, fixVars, textVars>>
    /\ UNCHANGED <<output_file, fix_methods, status, stdout>>

\* Lines 33-34, 62-63: fix_http_methods(output_file).  It catches its own
\* I/O errors: the file is left as written, is rewritten with quoted
\* method lists, or is left truncated by a failed rewrite.
CliFix ==
    /\ cli = "written" /\ fix_methods
    /\ \/ out_file' = out_file
       \/ HasUnquotedMethods /\ out_file' = [out_file EXCEPT !.normalized = TRUE]
       \/ HasUnquotedMethods /\ out_file' = [PartialFile EXCEPT !.normalized = TRUE]
    /\ cli' = "fixed"
    /\ UNCHANGED <<analyzerVars, scanVars, fixVars, textVars>>
    /\ UNCHANGED <<output_file, fix_methods, status, stdout, raised>>

\* Lines 36, 65: return 0.
CliReturn ==
    /\ cli = "fixed" \/ (cli = "written" /\ ~fix_methods)
    /\ status' = 0
    /\ cli' = "returned"
    /\ UNCHANGED <<analyzerVars, scanVars, fixVars, textVars>>
    /\ UNCHANGED <<output_file, fix_methods, stdout, out_file, raised>>

\* Mutant of CliExcept: the error is printed and 0 is returned.
CliExcept_ReturnsZero ==
    /\ cli = "raised"
    /\ stdout' = Append(stdout, ErrorDoc)
    /\ status' = 0
    /\ cli' = "returned"
    /\ UNCHANGED <<analyzerVars, scanVars, fixVars, textVars>>
    /\ UNCHANGED <<output_file, fix_methods, out_file, raised>>

\* Lines 40-43, 69-72: the except clause prints the error document and
\* returns 1.
CliExcept ==
    /\ cli = "raised"
    /\ stdout' = Append(stdout, ErrorDoc)
    /\ status' = 1
    /\ cli' = "returned"
    /\ UNCHANGED <<analyzerVars, scanVars, fixVars, textVars>>
    /\ UNCHANGED <<output_file, fix_methods, out_file, raised>>

NextCli ==
    \/ CliAnalysisRaises
    \/ CliDumps
    \/ CliDumpsRaises
    \/ CliPrint
    \/ CliWrite
    \/ CliWriteRaises
    \/ CliFix
    \/ CliReturn
    \/ CliExcept
    \/ NextScan

\* One call of analyze_app or analyze_file.
SpecCli == InitCli /\ [][NextCli]_vars

\* C21: a call that has returned 0 raised nothing and emitted the result
\* (printed it, or wrote it to the output file, which only the normalizer
\* has touched since); a call in which an exception reached the top-level
\* try returns a non-zero status after printing an error document; a call
\* in which none did returns 0; a raised exception is always handled.
C21_ErrorsBecomeErrorResults ==
    /\ (cli = "returned" /\ status = 0) =>
          /\ ~raised
          /\ ~output_file => stdout = <<ResultDoc>>
          /\ output_file =>
                /\ stdout = <<>>
                /\ \/ out_file \in {ResultDoc, [ResultDoc EXCEPT !.normalized = TRUE]}
                   \/ fix_methods /\ out_file.normalized
    /\ (cli = "returned" /\ raised) =>
          /\ status # 0
          /\ stdout = <<ErrorDoc>>
    /\ (cli = "returned" /\ ~raised) => status = 0
    /\ cli = "returned" => status \in {0, 1}
    /\ cli = "raised" => ENABLED CliExcept

\* An exception was raised by the output write, after a complete analysis
\* and serialization, and the call has returned.
C21_Witness ==
    /\ cli = "returned" /\ raised /\ status = 1
    /\ pc = "done" /\ out_file = PartialFile /\ Len(result) > 0

\* No decorator of definition d gives a path literal.
NoPathLiteral(d) ==
    /\ d.decorators # <<>>
    /\ \A dec \in Range(d.decorators) : dec.path \in {"", ComputedPath}

\* Some route decorator of d, on a known application or blueprint symbol,
\* gives a path literal.
HasRoutePath(d) ==
    \E dec \in Range(d.decorators) :
        /\ dec.attr = "route"
        /\ dec.receiver \in flask_apps \cup flask_blueprints
        /\ dec.path \notin {"", ComputedPath}

\* C22: a function whose route decorator has no positional argument, or a
\* computed first argument, has no route record, no assembled function and
\* no descriptor, while every route with a path literal in a file that got
\* past the route visitor has its route record and, when parse() has
\* returned, its descriptor.
C22_NoPathLiteralNoRoute ==
    /\ \A p \in DOMAIN sources :
          \A d \in Range(sources[p].defs) :
              NoPathLiteral(d) =>
                  /\ \A i \in 1..Len(routes) : routes[i].name # d.name
                  /\ \A i \in 1..Len(functions) : functions[i].name # d.name
                  /\ \A i \in 1..Len(result) : result[i].name # d.name
    /\ ScanDone =>
          \A p \in Range(python_files) :
              PassedSteps(p, {"imports", "functions", "routes"}) =>
                  \A d \in Range(sources[p].defs) :
                      HasRoutePath(d) =>
                          /\ \E i \in 1..Len(routes) :
                                routes[i].name = d.name /\ routes[i].file_path = p
                          /\ pc = "done" =>
                                \E i \in 1..Len(result) :
                                    result[i].name = d.name /\ result[i].file_path = p

\* parse() has returned the descriptor of s and none for u, whose decorator
\* has a computed first argument and which precedes s in app.py.
C22_Witness ==
    /\ pc = "done"
    /\ sources[AppPath].defs = <<Unrouted(ComputedPath), RouteS>>
    /\ \E i \in 1..Len(result) : result[i].name = "s"
    /\ \A i \in 1..Len(result) : result[i].name # "u"

\* C25: once phase 1 has ended, no name is both an application symbol and
\* a blueprint symbol.
C25_AppsAndBlueprintsDisjoint ==
    pc \notin {"start", "find_flask_apps"} => flask_apps \cap flask_blueprints = {}

\* Some function name is defined in more than one file.
NamesCollide ==
    \E p, q \in DOMAIN sources : p # q /\ DefinedIn(p) \cap DefinedIn(q) # {}

\* A step keeps every entry of the catalog and of the call graph as it is.
AppendOnly ==
    /\ \A n \in DOMAIN all_functions :
          n \in DOMAIN all_functions' /\ all_functions'[n] = all_functions[n]
    /\ \A n \in DOMAIN all_function_calls :
          n \in DOMAIN all_function_calls' /\ all_function_calls'[n] = all_function_calls[n]

\* The catalog and the call graph analyze_files builds when it processes
\* the files in the given order and none raises.
RECURSIVE CatalogIn(_)
CatalogIn(order) ==
    IF order = <<>> THEN [n \in {} |-> FuncInfo(n)]
    ELSE LET p == order[Len(order)]
         IN  FunctionDefinitionVisitor(sources[p], p) @@ CatalogIn(SubSeq(order, 1, Len(order) - 1))
RECURSIVE CallGraphIn(_)
CallGraphIn(order) ==
    IF order = <<>> THEN [n \in {} |-> {}]
    ELSE LET p == order[Len(order)]
         IN  FunctionCallVisitor(sources[p]) @@ CallGraphIn(SubSeq(order, 1, Len(order) - 1))

\* The dependency closure of R over a catalog and a call graph.
ClosureStepIn(cat, calls, R, S) ==
    S \cup {d \in UNION {calls[x] : x \in (S \cup {R}) \cap DOMAIN calls} :
              d \in DOMAIN cat /\ d \notin Builtins}
RECURSIVE ClosureIn(_, _, _, _)
ClosureIn(cat, calls, R, S) ==
    IF ClosureStepIn(cat, calls, R, S) = S THEN S
    ELSE ClosureIn(cat, calls, R, ClosureStepIn(cat, calls, R, S))

\* One order of the files, against which every run is compared.
ReferenceOrder == <<AppPath, UtilPath>>

\* When analyze_files has processed every file and none raised, the
\* catalog, the call graph and the dependencies and dependency sources of
\* the returned descriptors are those of a run in the reference order.
SameInEveryOrder ==
    (ScanDone /\ NoVisitRaised /\ Range(python_files) = DOMAIN sources) =>
        /\ all_functions = CatalogIn(ReferenceOrder)
        /\ all_function_calls = CallGraphIn(ReferenceOrder)
        /\ pc = "done" =>
              \A j \in 1..Len(result) :
                  LET deps == ClosureIn(CatalogIn(ReferenceOrder),
                                        CallGraphIn(ReferenceOrder), result[j].name, {})
                  IN  /\ Range(result[j].dependencies) = deps
                      /\ result[j].dependency_sources =
                           [k \in deps |-> CatalogIn(ReferenceOrder)[k].source]

AllNames == UNION {DefinedIn(p) : p \in DOMAIN sources}

\* The positions in python_files of the files that define n and whose
\* analysis did not raise.
AnalysedDefining(n) ==
    {i \in 1..Len(python_files) :
        n \in DefinedIn(python_files[i]) /\ Visited(2, python_files[i], "ok")}

\* The positions in python_files of the files that define n and whose
\* analysis got past the definition visitor.
CatalogedDefining(n) ==
    {i \in 1..Len(python_files) :
        /\ n \in DefinedIn(python_files[i])
        /\ PassedSteps(python_files[i], {"imports", "functions"})}

\* The catalog entry of n is the definition in the file at the last of the
\* given positions.
EntryFromLast(n, positions) ==
    LET i == CHOOSE x \in positions : \A y \in positions : y <= x
    IN  /\ n \in DOMAIN all_functions
        /\ all_functions[n].file_path = python_files[i]
        /\ all_functions[n].source = SourceIn(n, python_files[i])

\* C24 as stated: after phase 2 the catalog entry of a name is the
\* definition from the file visited last among the successfully analysed
\* files that define it.
C24_LastAnalysedDefinitionWins ==
    ScanDone =>
        \A n \in AllNames :
            AnalysedDefining(n) # {} => EntryFromLast(n, AnalysedDefining(n))

\* C24, amended: the entry is the definition from the file visited last
\* among the files that define the name and whose analysis reached the
\* end of the definition visitor, whether or not it raised later.
C24_LastCatalogedDefinitionWins ==
    ScanDone =>
        \A n \in AllNames :
            /\ CatalogedDefining(n) # {} => EntryFromLast(n, CatalogedDefining(n))
            /\ CatalogedDefining(n) = {} => n \notin DOMAIN all_functions

\* app.py and util.py both define g; util.py was visited last and its
\* analysis raised in the call visitor; the catalog holds util.py's g.
C24_Witness ==
    /\ ScanDone /\ NamesCollide
    /\ python_files = <<AppPath, UtilPath>>
    /\ Visited(2, AppPath, "ok") /\ Visited(2, UtilPath, "calls")
    /\ all_functions["g"].file_path = UtilPath

\* C26: after phase 2, the call-graph entry of every cataloged name holds
\* the calls of the definition the catalog entry was taken from.
C26_CatalogAndCallGraphAgree ==
    ScanDone =>
        \A n \in DOMAIN all_functions \cap DOMAIN all_function_calls :
            all_function_calls[n] =
                FunctionCallVisitor(sources[all_functions[n].file_path])[n]

(***************************************************************************)
(* The normalizer killed while it rewrites a file, and run again.           *)
(***************************************************************************)
\* What an interrupted f.write(content) leaves in the file: a proper prefix
\* of the content.
PartialWrites(text) == {SubSeq(text, 1, k) : k \in 0..(Len(text) - 1)}

\* The process is killed after the backup step of a call and before its
\* overwrite is complete (lines 28-41): before open() the primary file is
\* as it was, after it the file holds a part of the new content.  The run
\* has ended; fix_directory can be called again.
Interrupt ==
    /\ fpc \in {"rewrite", "write"}
    /\ \/ files' = files /\ wrote' = wrote
       \/ /\ fpc = "write"
          /\ \E part \in PartialWrites(content) :
                files' = [files EXCEPT ![file_path] = part]
          /\ wrote' = TRUE
    /\ walk' = <<>>
    /\ runs' = runs + 1
    /\ fpc' = "idle"
    /\ UNCHANGED <<backups, file_path, content, original_content, ret, fixed_files,
                   initial, entry, backup_state, failed>>
    /\ UNCHANGED <<analyzerVars, scanVars, textVars, cliVars>>

NextCrash ==
    \/ Interrupt
    \/ NextFix

\* Runs of fix_directory over the same files, any of which may be killed.
SpecCrash == InitFix /\ [][NextCrash]_vars

\* Text t is the content file p had before the first run, or that content
\* fully corrected.
IntactCopy(t, p) == t = initial.files[p] \/ t = FixText(initial.files[p])

\* C27: as long as no I/O operation has raised, whatever runs were killed,
\* the primary file or its .bak file holds the original or the fully
\* corrected content.
C27_IntactCopySurvives ==
    ~failed =>
        \A p \in DOMAIN files :
            \/ IntactCopy(files[p], p)
            \/ \E b \in backups[p] : IntactCopy(b, p)

====
